---- MODULE Spec2Model ----
(***************************************************************************)
(* Room/session state machine of the Demyati backend: the in-memory room   *)
(* store and the HTTP / Socket.IO handlers that mutate it, together with   *)
(* the validation utilities the handlers call and the Lobby client that    *)
(* drives rooms:start.                                                     *)
(***************************************************************************)
EXTENDS Integers, Sequences, FiniteSets, TLC

(***************************************************************************)
(* Bounds of the model.                                                    *)
(***************************************************************************)
\* number of distinct room codes the draws of Math.random() lead to
MaxCodes == 1

(***************************************************************************)
(* JavaScript values.  A value is a record tagged by its typeof class;     *)
(* strings are sequences of one-character strings so that trim, length    *)
(* and number formatting are computed, not assumed.                        *)
(***************************************************************************)
Undefined == [t |-> "undefined"]
Null == [t |-> "null"]
Bool(b) == [t |-> "boolean", b |-> b]
Num(n) == [t |-> "number", n |-> n]
Str(s) == [t |-> "string", s |-> s]
\* an object with the six properties the server reads (absent = Undefined)
Obj(id, name, color, ready, tile, isHost) ==
  [t |-> "object", id |-> id, name |-> name, color |-> color,
   ready |-> ready, tile |-> tile, isHost |-> isHost]

\* typeof v
TypeOf(v) == IF v.t = "null" THEN "object" ELSE v.t

\* ToBoolean: the truthiness `&&`, `||` and `!` test
Truthy(v) ==
  CASE v.t = "undefined" -> FALSE
    [] v.t = "null" -> FALSE
    [] v.t = "boolean" -> v.b
    [] v.t = "number" -> v.n # 0
    [] v.t = "string" -> Len(v.s) > 0
    [] OTHER -> TRUE

\* property read on a candidate: a missing property reads as undefined
Prop(v, p) ==
  IF v.t = "object" THEN v[p] ELSE Undefined

DigitChars == <<"0", "1", "2", "3", "4", "5", "6", "7", "8", "9">>

RECURSIVE NatToString(_)
NatToString(n) ==
  IF n < 10 THEN <<DigitChars[n + 1]>>
  ELSE NatToString(n \div 10) \o <<DigitChars[(n % 10) + 1]>>

\* Number.prototype.toString() on an integer
NumToString(n) ==
  IF n < 0 THEN <<"-">> \o NatToString(0 - n) ELSE NatToString(n)

\* String(v)
ToStr(v) ==
  CASE v.t = "string" -> v.s
    [] v.t = "number" -> NumToString(v.n)
    [] v.t = "boolean" ->
         IF v.b THEN <<"t", "r", "u", "e">> ELSE <<"f", "a", "l", "s", "e">>
    [] v.t = "undefined" -> <<"u", "n", "d", "e", "f", "i", "n", "e", "d">>
    [] v.t = "null" -> <<"n", "u", "l", "l">>
    [] OTHER -> <<"[", "o", "b", "j", "e", "c", "t", " ", "O", "b", "j", "e", "c", "t", "]">>

WhiteSpace == {" ", "\t", "\n"}

RECURSIVE TrimStart(_)
TrimStart(s) ==
  IF s # <<>> /\ Head(s) \in WhiteSpace THEN TrimStart(Tail(s)) ELSE s

RECURSIVE TrimEnd(_)
TrimEnd(s) ==
  IF s # <<>> /\ s[Len(s)] \in WhiteSpace
    THEN TrimEnd(SubSeq(s, 1, Len(s) - 1)) ELSE s

\* faulty variant: one white-space character taken off each end
TrimOnce(s) ==
  LET t == IF s # <<>> /\ Head(s) \in WhiteSpace THEN Tail(s) ELSE s
  IN IF t # <<>> /\ t[Len(t)] \in WhiteSpace
       THEN SubSeq(t, 1, Len(t) - 1) ELSE t

\* String.prototype.trim()
Trim(s) == TrimEnd(TrimStart(s))

\* a || b
JsOr(a, b) == IF Truthy(a) THEN a ELSE b

(***************************************************************************)
(* Identifier and validation utilities (backend/src/types.ts).             *)
(***************************************************************************)
DefaultColor == <<"#", "e", "f", "4", "4", "4", "4">>

CodeBase == 1000
CodeSpan == 9000

\* n of the values Math.floor(Math.random() * 9000) can take: the lower end of
\* the range, then the upper end and the values below it
Draws(n) == {0} \cup {CodeSpan - k : k \in 1..(n - 1)}

\* generateRoomCode(), for the draw k = Math.floor(Math.random() * 9000)
generateRoomCode(k) == NumToString(CodeBase + k)

\* an exception no handler catches: it ends the process
Thrown(name) == [kind |-> "throw", name |-> name]

\* faulty variant: the name is measured as it came, untrimmed
validatePlayerUntrimmed(player) ==
  /\ Truthy(player)
  /\ TypeOf(Prop(player, "id")) = "string"
  /\ TypeOf(Prop(player, "name")) = "string"
  /\ TypeOf(Prop(player, "color")) = "string"
  /\ TypeOf(Prop(player, "ready")) = "boolean"
  /\ Len(Prop(player, "id").s) > 0
  /\ Len(Prop(player, "name").s) > 0

\* the operands of the && chain are evaluated left to right and the chain
\* stops at the first falsy one, so .length and .trim() are reached on
\* strings only; callers use the value under `!` alone
validatePlayer(player) ==
  /\ Truthy(player)
  /\ TypeOf(Prop(player, "id")) = "string"
  /\ TypeOf(Prop(player, "name")) = "string"
  /\ TypeOf(Prop(player, "color")) = "string"
  /\ TypeOf(Prop(player, "ready")) = "boolean"
  /\ Len(Prop(player, "id").s) > 0
  /\ Len(Trim(Prop(player, "name").s)) > 0

\* faulty variant: `ready` copied from the isHost property
sanitizePlayerReadyFromIsHost(player) ==
  [id |-> ToStr(JsOr(Prop(player, "id"), Str(<<>>))),
   name |-> Trim(ToStr(JsOr(Prop(player, "name"), Str(<<>>)))),
   color |-> ToStr(JsOr(Prop(player, "color"), Str(DefaultColor))),
   ready |-> Truthy(Prop(player, "isHost")),
   tile |-> IF TypeOf(Prop(player, "tile")) = "number"
              THEN Prop(player, "tile").n ELSE 1,
   isHost |-> Truthy(Prop(player, "isHost"))]

\* player.id on null or undefined throws; on every other value a property
\* that is missing reads as undefined
sanitizePlayer(player) ==
  IF player.t \in {"null", "undefined"} THEN Thrown("TypeError") ELSE
  [id |-> ToStr(JsOr(Prop(player, "id"), Str(<<>>))),
   name |-> Trim(ToStr(JsOr(Prop(player, "name"), Str(<<>>)))),
   color |-> ToStr(JsOr(Prop(player, "color"), Str(DefaultColor))),
   ready |-> Truthy(Prop(player, "ready")),
   tile |-> IF TypeOf(Prop(player, "tile")) = "number"
              THEN Prop(player, "tile").n ELSE 1,
   isHost |-> Truthy(Prop(player, "isHost"))]

(***************************************************************************)
(* Server state (backend/src/index.ts): the room store, and the effects of *)
(* the handler that ran last (emits, acknowledgement, HTTP reply).         *)
(* atStart is a history of the store: for each started room, the ids its   *)
(* list held when rooms:start set the flag.  The remaining variables are   *)
(* the browser side: each client's Lobby component and the messages in     *)
(* flight between it and the server.  playerConnections is the second      *)
(* store of the annotated server (unnamed/part_001): for each socket id,   *)
(* the room and the player of its last create or join.  loop is the event  *)
(* loop of the server process seen statement by statement: the requests    *)
(* that arrived and wait, the handlers that have begun and where each      *)
(* stands, and the store that the handlers taken so far leave when they    *)
(* are applied whole, one after another.  call is a call of one of the     *)
(* helper functions of types.ts on its own: the argument and what came of  *)
(* it.  twin is the second of two servers that are given the same          *)
(* requests: while one of them handles a request in rooms and out, the     *)
(* store and the effects of the other are kept here.  adapter is the       *)
(* module state of the client adapter (the socket it holds) together with  *)
(* the sockets it has opened and the joinRoom calls it has been asked for. *)
(* animation is the DiceAnimation component: its props, its state and      *)
(* whether its timers run.                                                 *)
(***************************************************************************)
VARIABLES rooms, out, atStart, lobby, toServer, toClient, playerConnections, loop,
          call, twin, adapter, animation

vars == <<rooms, out, atStart, lobby, toServer, toClient, playerConnections, loop, call,
          twin, adapter, animation>>

\* the browser side
clientVars == <<lobby, toServer, toClient>>

\* null, where a number is expected (useState<number | null>(null))
NoValue == 0

\* DiceAnimation as it is mounted: not rolling, no result, useState(null),
\* useState(0), no timer
NotRolling ==
  [isRolling |-> FALSE, result |-> NoValue, displayValue |-> NoValue,
   animationStep |-> 0, timer |-> "off", ticks |-> 0]

\* `rooms` is a plain object ({}): a lookup under a key it does not own goes
\* to Object.prototype, where "constructor" is the function Object and
\* "__proto__" is Object.prototype itself
Constructor == <<"c", "o", "n", "s", "t", "r", "u", "c", "t", "o", "r">>
Proto == <<"_", "_", "p", "r", "o", "t", "o", "_", "_">>
InheritedKeys == {Constructor, Proto}
Inherited(k) == IF k = Proto THEN [t |-> "object"] ELSE [t |-> "function"]

\* obj[k]
Get(obj, k) ==
  IF k \in DOMAIN obj THEN obj[k]
  ELSE IF k \in InheritedKeys THEN Inherited(k)
  ELSE Undefined

\* `const room = rooms[code]; if (!room) ...`: every value but undefined that
\* a lookup returns is truthy
Found(code) == Get(rooms, code) # Undefined

\* room.players is an array: the value is a room record, not an inherited one
HasPlayers(room) == "players" \in DOMAIN room

\* faulty variant: the assignment empties the rest of the object
PutAlone(obj, k, v) == [x \in {k} |-> v]

\* obj[k] = v
Put(obj, k, v) ==
  [x \in (DOMAIN obj) \cup {k} |-> IF x = k THEN v ELSE obj[x]]

\* delete obj[k]
Del(obj, k) == [x \in (DOMAIN obj) \ {k} |-> obj[x]]


\* io.emit(event, payload): sent to every connected socket
Emit(ev, payload) == [kind |-> "emit", ev |-> ev, payload |-> payload]
\* cb(err, res), the acknowledgement of the request `ev`
Ack(ev, err, res) == [kind |-> "ack", of |-> ev, err |-> err, res |-> res]
\* res.status(status).json(body)
Http(status, body) == [kind |-> "http", status |-> status, body |-> body]

Error(msg) == [error |-> msg]

\* `return cb && cb({ error })`: a call, unless cb is falsy; the call of a
\* value that is no function throws
CbError(cb, ev, msg) ==
  IF cb = "function" THEN <<Ack(ev, Error(msg), Undefined)>>
  ELSE IF cb = "undefined" THEN <<>>
  ELSE <<Thrown("TypeError")>>
\* `if (typeof cb === 'function') cb(null, res)`
CbResult(cb, ev, res) ==
  IF cb = "function" THEN <<Ack(ev, Null, res)>> ELSE <<>>

\* the ids of the records of a players list
IdsOf(players) == {players[i].id : i \in 1..Len(players)}

\* faulty variant: the filter that removes nothing
WithoutIdKeepsAll(players, id) == players

\* players.filter((p) => p.id !== id)
WithoutId(players, id) ==
  LET Keep(p) == p.id # id IN SelectSeq(players, Keep)

\* faulty variant: a merge that keeps the tile of the old record
ReplaceIdKeepsTile(players, id, replacement) ==
  [i \in 1..Len(players) |->
     IF players[i].id = id
       THEN [replacement EXCEPT !.tile = players[i].tile]
       ELSE players[i]]

\* faulty variant: a record that replaces none is added at the end
ReplaceIdOrAdd(players, id, replacement) ==
  IF \E i \in 1..Len(players) : players[i].id = id
    THEN [i \in 1..Len(players) |-> IF players[i].id = id THEN replacement ELSE players[i]]
    ELSE Append(players, replacement)

\* players.map((p) => (p.id === id ? replacement : p))
ReplaceId(players, id, replacement) ==
  [i \in 1..Len(players) |-> IF players[i].id = id THEN replacement ELSE players[i]]

\* faulty variant: the tile of the sanitized record is kept
WithTileKept(sanitized) == sanitized

\* { ...sanitizedPlayer, tile: 1 }
WithTile1(sanitized) == [sanitized EXCEPT !.tile = 1]

\* the room a create handler builds for a validated host
NewRoom(code, host) ==
  [code |-> code,
   players |-> <<WithTile1(sanitizePlayer(host))>>,
   started |-> FALSE,
   hostId |-> host.id.s]

\* faulty variant: the code of the first draw is used without the
\* `while (rooms[code])` loop
PostRoomsNoRetry(host, k) ==
  IF ~Truthy(host) \/ ~validatePlayer(host)
    THEN /\ out' = <<Http(400, Error("missing or invalid host"))>>
         /\ UNCHANGED rooms
    ELSE LET code == generateRoomCode(k)
             room == NewRoom(code, host) IN
         /\ rooms' = Put(rooms, code, room)
         /\ out' = <<Emit("rooms:update", rooms'), Http(201, room)>>

\* app.post('/rooms'), body { host }; k is the draw of the generateRoomCode()
\* call that ends the `while (rooms[code])` loop
PostRooms(host, k) ==
  IF ~Truthy(host) \/ ~validatePlayer(host)
    THEN /\ out' = <<Http(400, Error("missing or invalid host"))>>
         /\ UNCHANGED rooms
    ELSE LET code == generateRoomCode(k)
             room == NewRoom(code, host) IN
         /\ code \notin DOMAIN rooms
         /\ rooms' = Put(rooms, code, room)
         /\ out' = <<Emit("rooms:update", rooms'), Http(201, room)>>

\* socket.on('rooms:create', (host, cb) => ...)
RoomsCreate(host, cb, k) ==
  IF ~validatePlayer(host)
    THEN /\ out' = CbError(cb, "rooms:create", "invalid host data")
         /\ UNCHANGED rooms
    ELSE LET code == generateRoomCode(k)
             room == NewRoom(code, host) IN
         /\ code \notin DOMAIN rooms
         /\ rooms' = Put(rooms, code, room)
         /\ out' = <<Emit("rooms:update", rooms')>> \o CbResult(cb, "rooms:create", room)

\* faulty variant: a started room refuses the join
RoomsJoinUnlessStarted(code, player, cb) ==
  IF code \notin DOMAIN rooms
    THEN /\ out' = CbError(cb, "rooms:join", "not found")
         /\ UNCHANGED rooms
  ELSE IF ~validatePlayer(player)
    THEN /\ out' = CbError(cb, "rooms:join", "invalid player data")
         /\ UNCHANGED rooms
  ELSE IF rooms[code].started
    THEN /\ out' = CbError(cb, "rooms:join", "already started")
         /\ UNCHANGED rooms
  ELSE LET room == rooms[code]
           joined == Append(WithoutId(room.players, player.id.s),
                            WithTile1(sanitizePlayer(player)))
           room2 == [room EXCEPT !.players = joined] IN
       /\ rooms' = Put(rooms, code, room2)
       /\ out' = <<Emit("rooms:update", rooms')>> \o CbResult(cb, "rooms:join", room2)

\* faulty variant: the join appends without removing the record of the same id
JoinAppends(store, code, player) ==
  LET room == store[code]
      joined == Append(room.players, WithTile1(sanitizePlayer(player)))
      room2 == [room EXCEPT !.players = joined] IN
  Put(store, code, room2)

\* faulty variant: the new record is put in front of the list
JoinInFront(store, code, player) ==
  LET room == store[code]
      joined == <<WithTile1(sanitizePlayer(player))>>
                  \o WithoutId(room.players, player.id.s)
      room2 == [room EXCEPT !.players = joined] IN
  Put(store, code, room2)

\* the store a successful rooms:join leaves: the records of the same id
\* filtered out of the room's list, the sanitized candidate pushed with tile 1
Join(store, code, player) ==
  LET room == store[code]
      joined == Append(WithoutId(room.players, player.id.s),
                       WithTile1(sanitizePlayer(player)))
      room2 == [room EXCEPT !.players = joined] IN
  Put(store, code, room2)

\* socket.on('rooms:join', (code, player, cb) => ...)
RoomsJoin(code, player, cb) ==
  IF ~Found(code)
    THEN /\ out' = CbError(cb, "rooms:join", "not found")
         /\ UNCHANGED rooms
  ELSE IF ~validatePlayer(player)
    THEN /\ out' = CbError(cb, "rooms:join", "invalid player data")
         /\ UNCHANGED rooms
  ELSE IF ~HasPlayers(Get(rooms, code))
    THEN \* room.players.filter: room.players is undefined
         /\ out' = <<Thrown("TypeError")>>
         /\ UNCHANGED rooms
  ELSE /\ rooms' = Join(rooms, code, player)
       /\ out' = <<Emit("rooms:update", rooms')>> \o CbResult(cb, "rooms:join", rooms'[code])

\* faulty variant: the room is deleted as soon as its list is empty, whoever left
RoomsLeaveDeletesWhenEmpty(code, playerId, cb) ==
  IF code \notin DOMAIN rooms
    THEN /\ out' = CbError(cb, "rooms:leave", "not found")
         /\ UNCHANGED rooms
  ELSE LET room == rooms[code]
           room2 == [room EXCEPT !.players = WithoutId(room.players, playerId)] IN
       /\ rooms' = IF Len(room2.players) = 0
                     THEN Del(rooms, code)
                     ELSE Put(rooms, code, room2)
       /\ out' = <<Emit("rooms:update", rooms')>> \o CbResult(cb, "rooms:leave", [ok |-> TRUE])

\* faulty variant: leaving a room one is not in is an error
RoomsLeaveRejectsAbsent(code, playerId, cb) ==
  IF code \notin DOMAIN rooms
    THEN /\ out' = CbError(cb, "rooms:leave", "not found")
         /\ UNCHANGED rooms
  ELSE IF \A i \in 1..Len(rooms[code].players) : rooms[code].players[i].id # playerId
    THEN /\ out' = CbError(cb, "rooms:leave", "not in room")
         /\ UNCHANGED rooms
  ELSE LET room == rooms[code]
           room2 == [room EXCEPT !.players = WithoutId(room.players, playerId)] IN
       /\ rooms' = IF room2.hostId = playerId /\ Len(room2.players) = 0
                     THEN Del(rooms, code)
                     ELSE Put(rooms, code, room2)
       /\ out' = <<Emit("rooms:update", rooms')>> \o CbResult(cb, "rooms:leave", [ok |-> TRUE])

\* faulty variant: when the host leaves and others remain, the first of them
\* becomes the host
RoomsLeaveReelects(code, playerId, cb) ==
  IF code \notin DOMAIN rooms
    THEN /\ out' = CbError(cb, "rooms:leave", "not found")
         /\ UNCHANGED rooms
  ELSE LET room == rooms[code]
           left == WithoutId(room.players, playerId)
           room2 == [room EXCEPT !.players = left,
                                 !.hostId = IF @ = playerId /\ Len(left) > 0
                                              THEN left[1].id ELSE @] IN
       /\ rooms' = IF room2.hostId = playerId /\ Len(room2.players) = 0
                     THEN Del(rooms, code)
                     ELSE Put(rooms, code, room2)
       /\ out' = <<Emit("rooms:update", rooms')>> \o CbResult(cb, "rooms:leave", [ok |-> TRUE])

\* faulty variant: a leave that deletes the room broadcasts nothing
RoomsLeaveSilentOnDelete(code, playerId, cb) ==
  IF code \notin DOMAIN rooms
    THEN /\ out' = CbError(cb, "rooms:leave", "not found")
         /\ UNCHANGED rooms
  ELSE LET room == rooms[code]
           room2 == [room EXCEPT !.players = WithoutId(room.players, playerId)]
           gone == room2.hostId = playerId /\ Len(room2.players) = 0 IN
       /\ rooms' = IF gone THEN Del(rooms, code) ELSE Put(rooms, code, room2)
       /\ out' = (IF gone THEN <<>> ELSE <<Emit("rooms:update", rooms')>>)
                   \o CbResult(cb, "rooms:leave", [ok |-> TRUE])

\* faulty variant: when no player has the id, the last one of the list goes
LeavePopsWhenAbsent(store, code, playerId) ==
  LET room == store[code]
      left == IF playerId \in IdsOf(room.players) \/ Len(room.players) = 0
                THEN WithoutId(room.players, playerId)
                ELSE SubSeq(room.players, 1, Len(room.players) - 1)
      room2 == [room EXCEPT !.players = left] IN
  IF room2.hostId = playerId /\ Len(room2.players) = 0
    THEN Del(store, code)
    ELSE Put(store, code, room2)

\* the store a rooms:leave on a room leaves: the records of the id filtered
\* out of the room's list, and the room deleted when the id is the host's and
\* the list is then empty
Leave(store, code, playerId) ==
  LET room == store[code]
      room2 == [room EXCEPT !.players = WithoutId(room.players, playerId)] IN
  IF room2.hostId = playerId /\ Len(room2.players) = 0
    THEN Del(store, code)
    ELSE Put(store, code, room2)

\* socket.on('rooms:leave', (code, playerId, cb) => ...)
RoomsLeave(code, playerId, cb) ==
  IF ~Found(code)
    THEN /\ out' = CbError(cb, "rooms:leave", "not found")
         /\ UNCHANGED rooms
  ELSE IF ~HasPlayers(Get(rooms, code))
    THEN \* room.players.length: room.players is undefined
         /\ out' = <<Thrown("TypeError")>>
         /\ UNCHANGED rooms
  ELSE /\ rooms' = Leave(rooms, code, playerId)
       /\ out' = <<Emit("rooms:update", rooms')>> \o CbResult(cb, "rooms:leave", [ok |-> TRUE])

\* faulty variant: the update sends the room back to the lobby
RoomsUpdatePlayerResetsStarted(code, player, cb) ==
  IF code \notin DOMAIN rooms
    THEN /\ out' = CbError(cb, "rooms:updatePlayer", "not found")
         /\ UNCHANGED rooms
  ELSE IF ~validatePlayer(player)
    THEN /\ out' = CbError(cb, "rooms:updatePlayer", "invalid player data")
         /\ UNCHANGED rooms
  ELSE LET room == rooms[code]
           room2 == [room EXCEPT !.players =
                       ReplaceId(room.players, player.id.s, sanitizePlayer(player)),
                                 !.started = FALSE] IN
       /\ rooms' = Put(rooms, code, room2)
       /\ out' = <<Emit("rooms:update", rooms')>> \o CbResult(cb, "rooms:updatePlayer", room2)

\* socket.on('rooms:updatePlayer', (code, player, cb) => ...)
RoomsUpdatePlayer(code, player, cb) ==
  IF ~Found(code)
    THEN /\ out' = CbError(cb, "rooms:updatePlayer", "not found")
         /\ UNCHANGED rooms
  ELSE IF ~validatePlayer(player)
    THEN /\ out' = CbError(cb, "rooms:updatePlayer", "invalid player data")
         /\ UNCHANGED rooms
  ELSE IF ~HasPlayers(Get(rooms, code))
    THEN \* room.players.map: room.players is undefined
         /\ out' = <<Thrown("TypeError")>>
         /\ UNCHANGED rooms
  ELSE LET room == rooms[code]
           room2 == [room EXCEPT !.players =
                       ReplaceId(room.players, player.id.s, sanitizePlayer(player))] IN
       /\ rooms' = Put(rooms, code, room2)
       /\ out' = <<Emit("rooms:update", rooms')>> \o CbResult(cb, "rooms:updatePlayer", room2)

\* faulty variant: the documented gate (two players, all ready) is enforced
RoomsStartWhenReady(code, cb) ==
  IF code \notin DOMAIN rooms
    THEN /\ out' = CbError(cb, "rooms:start", "not found")
         /\ UNCHANGED rooms
  ELSE IF \/ Len(rooms[code].players) < 2
          \/ \E i \in 1..Len(rooms[code].players) : ~rooms[code].players[i].ready
    THEN /\ out' = CbError(cb, "rooms:start", "not ready")
         /\ UNCHANGED rooms
  ELSE LET room2 == [rooms[code] EXCEPT !.started = TRUE] IN
       /\ rooms' = Put(rooms, code, room2)
       /\ out' = <<Emit("rooms:update", rooms')>> \o CbResult(cb, "rooms:start", room2)

\* socket.on('rooms:start', (code, cb) => ...)
RoomsStart(code, cb) ==
  IF ~Found(code)
    THEN /\ out' = CbError(cb, "rooms:start", "not found")
         /\ UNCHANGED rooms
  ELSE LET room == Get(rooms, code)
           \* room.started = true
           room2 == [f \in (DOMAIN room) \cup {"started"} |->
                       IF f = "started" THEN TRUE ELSE room[f]] IN
       \* the assignment changes the object the lookup returned: a room of
       \* the store, or an inherited value that is no property of the store
       /\ rooms' = IF code \in DOMAIN rooms THEN Put(rooms, code, room2) ELSE rooms
       /\ out' = <<Emit("rooms:update", rooms')>> \o CbResult(cb, "rooms:start", room2)

\* socket.on('disconnect', () => ...): logs only
Disconnect ==
  /\ out' = <<>>
  /\ UNCHANGED rooms

\* app.get('/rooms/:code')
GetRoomByCode(code) ==
  /\ out' = IF ~Found(code)
              THEN <<Http(404, Error("not found"))>>
              ELSE <<Http(200, Get(rooms, code))>>
  /\ UNCHANGED rooms

\* the history of the store after a step: a room that becomes started (or is
\* created started) records the ids of its list, a room that stays started
\* keeps its record, a room that is deleted loses it
RecordStart ==
  [code \in {c \in DOMAIN rooms' : rooms'[c].started} |->
     IF code \in DOMAIN rooms /\ rooms[code].started /\ code \in DOMAIN atStart
       THEN atStart[code]
       ELSE IdsOf(rooms'[code].players)]

(***************************************************************************)
(* Requests the clients send.                                              *)
(***************************************************************************)
IdP1 == <<"p", "1">>
IdP2 == <<"p", "2">>
PlayerIds == {IdP1, IdP2}
\* the ids a rooms:leave may name: the players' and one no player has
LeaveIds == PlayerIds \cup {<<"z", "z">>}

White == <<"#", "f", "f", "f">>

\* what the create page sends (isHost, no tile), what the game page echoes
\* back (a tile), here with a padded name and an empty colour to exercise
\* sanitizePlayer, and what the Lobby sends (neither isHost nor tile)
ValidCandidates ==
  { Obj(Str(IdP1), Str(<<"A", "n", "n">>), Str(White), Bool(FALSE), Undefined, Bool(TRUE)),
    Obj(Str(IdP1), Str(<<" ", "A", "l", " ">>), Str(<<>>), Bool(TRUE), Num(7), Undefined),
    Obj(Str(IdP2), Str(<<"B", "o">>), Str(White), Bool(TRUE), Undefined, Undefined) }

\* payloads validatePlayer rejects
InvalidCandidates ==
  { Null,
    Obj(Undefined, Undefined, Undefined, Undefined, Undefined, Undefined),
    Obj(Str(<<"x">>), Str(<<" ", " ">>), Str(White), Bool(FALSE), Undefined, Undefined),
    Obj(Str(IdP1), Str(<<"x">>), Str(White), Str(<<"y", "e", "s">>), Undefined, Undefined) }

Candidates == ValidCandidates \cup InvalidCandidates

\* the payloads validatePlayer accepts
Accepted == {player \in Candidates : validatePlayer(player)}

\* the codes a request may name: those generateRoomCode returns for the draws,
\* and one no room has
RequestCodes(draws) == {generateRoomCode(k) : k \in draws} \cup {<<"0", "0", "0", "0">>}

\* the acknowledgement argument: a function, or none
Callbacks == {"function", "undefined"}

(***************************************************************************)
(* The browser side (frontend/components/Game.tsx): one Lobby component    *)
(* per client, mounted once per session, and the transport between the     *)
(* client and the server, a FIFO channel in each direction.                *)
(***************************************************************************)
\* the number of messages a channel holds
MaxQueue == 2

\* a client is known by the playerId of its session
LobbyClients == PlayerIds

\* the `mode` prop: the client that created the room is the host
Mode(c) == IF c = IdP1 THEN "host" ELSE "join"

\* the `nickname` prop
Nickname(c) == IF c = IdP1 THEN <<"A", "n", "n">> ELSE <<"B", "o">>

\* COLORS[0], the initial `color` state
LobbyColor == <<"#", "e", "f", "4", "4", "4", "4">>

\* the room the clients meet in: the code of the lowest draw
LobbyDraw == CHOOSE k \in Draws(1) : TRUE
LobbyCode == generateRoomCode(LobbyDraw)

\* the host the create page posts
HostCandidate(c) ==
  Obj(Str(c), Str(Nickname(c)), Str(LobbyColor), Bool(FALSE), Undefined, Bool(TRUE))

\* { id: playerId, name: nickname, color, ready }: what the Lobby joins with
\* (ready false) and what handleToggleReady sends
LobbyPlayer(c, ready) ==
  Obj(Str(c), Str(Nickname(c)), Str(LobbyColor), Bool(ready), Undefined, Undefined)

\* a request on its way to the server
Request(ev, arg) == [ev |-> ev, arg |-> arg]

\* the state of a Lobby component: where the client is (not yet there, in the
\* lobby, in the game after onStarted, gone after onBack), the useState values
\* players, ready and isHost, and the refs joinedRef and gameStartedRef
LobbyState(phase, isHost, joined) ==
  [phase |-> phase, players |-> <<>>, ready |-> FALSE, isHost |-> isHost,
   joined |-> joined, gameStarted |-> FALSE]

\* faulty variant: the cleanup does not look at gameStartedRef
CleanupWhenJoined(c, l) ==
  IF l.joined
    THEN <<Request("rooms:leave", Str(c))>>
    ELSE <<>>

\* the cleanup of the subscription effect, run when the component unmounts
Cleanup(c, l) ==
  IF l.joined /\ ~l.gameStarted
    THEN <<Request("rooms:leave", Str(c))>>
    ELSE <<>>

\* gameStartedRef.current = true; onStarted(code): the component unmounts
OnStarted(c, l) ==
  [l |-> LobbyState("game", FALSE, FALSE),
   send |-> Cleanup(c, [l EXCEPT !.gameStarted = TRUE])]

\* onBack(): the component unmounts
OnBack(c, l) == [l |-> LobbyState("gone", FALSE, FALSE), send |-> Cleanup(c, l)]

\* playersList.find(p => p.id === playerId): the index of the first record
\* with the id, 0 when there is none
FindId(players, id) ==
  LET found == {i \in 1..Len(players) : players[i].id = id} IN
  IF found = {} THEN 0 ELSE CHOOSE i \in found : \A j \in found : i <= j

\* handleUpdate, for the room it found under `code` (Null when it found none):
\* the next state of the component and the requests it sends
handleUpdate(c, l, room) ==
  IF room = Null THEN OnBack(c, l)
  ELSE LET playersList == room.players
           view == [i \in 1..Len(playersList) |->
                      [id |-> playersList[i].id, name |-> playersList[i].name,
                       color |-> playersList[i].color, ready |-> playersList[i].ready,
                       isHost |-> playersList[i].id = room.hostId]]
           current == FindId(playersList, c)
           isActuallyHost == room.hostId = c IN
       IF Mode(c) = "host" /\ ~isActuallyHost THEN OnBack(c, l)
       ELSE IF room.started THEN OnStarted(c, l)
       ELSE [l |-> [l EXCEPT !.players = view,
                             !.ready = IF current # 0 THEN playersList[current].ready ELSE @,
                             !.isHost = isActuallyHost],
             send |-> <<>>]

\* the acknowledgement of joinRoom: onBack on an error, joinedRef otherwise
JoinAcked(c, l, err) ==
  IF err = Null THEN [l |-> [l EXCEPT !.joined = TRUE], send |-> <<>>]
  ELSE OnBack(c, l)

\* canStart
canStart(l) ==
  /\ l.isHost
  /\ Len(l.players) >= 2
  /\ \A i \in 1..Len(l.players) : l.players[i].ready

Init ==
  /\ rooms = <<>>
  /\ out = <<>>
  /\ atStart = <<>>
  /\ lobby = [c \in LobbyClients |-> LobbyState("out", FALSE, FALSE)]
  /\ toServer = [c \in LobbyClients |-> <<>>]
  /\ toClient = [c \in LobbyClients |-> <<>>]
  /\ playerConnections = <<>>
  /\ loop = [queue |-> <<>>, jobs |-> <<>>, serial |-> <<>>]
  /\ call = [at |-> "none"]
  /\ twin = [server |-> "none"]
  /\ adapter = [socket |-> 0]
  /\ animation = NotRolling

(***************************************************************************)
(* The server alone: requests of every kind, in any order.                 *)
(***************************************************************************)
\* the handler that ran last has returned and its messages were handed to the
\* transports: the event loop is free to take the next request
Idle == out = <<>>

\* what a step of the server does beside the store: the history is kept when
\* `record` is set, and no client is looked at
Beside(record) ==
  /\ atStart' = IF record THEN RecordStart ELSE atStart
  /\ UNCHANGED <<clientVars, playerConnections, loop, call, twin, adapter, animation>>

\* the process is gone after an exception nobody caught
Crashed == \E i \in 1..Len(out) : out[i].kind = "throw"

Drain ==
  /\ out # <<>>
  /\ ~Crashed
  /\ out' = <<>>
  /\ UNCHANGED <<rooms, atStart, clientVars, playerConnections, loop, call, twin, adapter, animation>>

\* the requests of every kind, for the given draws of Math.random() and
\* the given payloads
Requests(draws, payloads, record) ==
  \/ \E host \in payloads, k \in draws :
       Idle /\ PostRooms(host, k) /\ Beside(record)
  \/ \E host \in payloads, cb \in Callbacks, k \in draws :
       Idle /\ RoomsCreate(host, cb, k) /\ Beside(record)
  \/ \E code \in RequestCodes(draws), player \in payloads, cb \in Callbacks :
       Idle /\ RoomsJoin(code, player, cb) /\ Beside(record)
  \/ \E code \in RequestCodes(draws), playerId \in LeaveIds, cb \in Callbacks :
       Idle /\ RoomsLeave(code, playerId, cb) /\ Beside(record)
  \/ \E code \in RequestCodes(draws), player \in payloads, cb \in Callbacks :
       Idle /\ RoomsUpdatePlayer(code, player, cb) /\ Beside(record)
  \/ \E code \in RequestCodes(draws), cb \in Callbacks :
       Idle /\ RoomsStart(code, cb) /\ Beside(record)
  \/ Idle /\ Disconnect /\ Beside(record)
  \/ Drain

\* one room code, every payload: the claims about a single room
Next == Requests(Draws(MaxCodes), Candidates, FALSE)

Spec == Init /\ [][Next]_vars

\* one more room code, fewer payloads: the claims about several rooms
AllDraws == Draws(MaxCodes + 1)
AllCodes == RequestCodes(AllDraws)

RoomsCandidates ==
  { Obj(Str(IdP1), Str(<<" ", "A", "l", " ">>), Str(<<>>), Bool(TRUE), Num(7), Undefined),
    Null }

NextRooms == Requests(AllDraws, RoomsCandidates, FALSE)

SpecRooms == Init /\ [][NextRooms]_vars

\* one room code, the payloads of the Lobby, and the history of the starts:
\* the claims about what a started room has been through
StartedCandidates ==
  { LobbyPlayer(IdP1, FALSE), LobbyPlayer(IdP2, TRUE), Null }

NextStarted == Requests(Draws(MaxCodes), StartedCandidates, TRUE)

SpecStarted == Init /\ [][NextStarted]_vars

\* one room code and the requests a client is free to send: a code of any
\* form, any payload, anything as the acknowledgement argument
ErrorCodes == {LobbyCode, <<"0", "0", "0", "0">>, <<"x">>, Constructor, Proto}
ErrorPayloads == {LobbyPlayer(IdP1, FALSE), LobbyPlayer(IdP2, TRUE)} \cup InvalidCandidates
ErrorCallbacks == Callbacks \cup {"string"}

NextErrors ==
  \/ \E host \in ErrorPayloads :
       Idle /\ PostRooms(host, LobbyDraw) /\ Beside(FALSE)
  \/ \E host \in ErrorPayloads, cb \in ErrorCallbacks :
       Idle /\ RoomsCreate(host, cb, LobbyDraw) /\ Beside(FALSE)
  \/ \E code \in ErrorCodes, player \in ErrorPayloads, cb \in ErrorCallbacks :
       Idle /\ RoomsJoin(code, player, cb) /\ Beside(FALSE)
  \/ \E code \in ErrorCodes, playerId \in LeaveIds, cb \in ErrorCallbacks :
       Idle /\ RoomsLeave(code, playerId, cb) /\ Beside(FALSE)
  \/ \E code \in ErrorCodes, player \in ErrorPayloads, cb \in ErrorCallbacks :
       Idle /\ RoomsUpdatePlayer(code, player, cb) /\ Beside(FALSE)
  \/ \E code \in ErrorCodes, cb \in ErrorCallbacks :
       Idle /\ RoomsStart(code, cb) /\ Beside(FALSE)
  \/ Idle /\ Disconnect /\ Beside(FALSE)
  \/ Drain

SpecErrors == Init /\ [][NextErrors]_vars

\* GAME_CONFIG.MAX_PLAYERS
MAX_PLAYERS == 6

\* one room, and one more session than MAX_PLAYERS: the create page of the
\* first, then the joinRoom and leaveRoom calls of the Lobby of each
CrowdIds == {<<"q", DigitChars[i + 1]>> : i \in 1..(MAX_PLAYERS + 1)}
CrowdHost == <<"q", DigitChars[2]>>

NextCrowd ==
  \/ Idle /\ PostRooms(HostCandidate(CrowdHost), LobbyDraw) /\ Beside(FALSE)
  \/ \E id \in CrowdIds :
       Idle /\ RoomsJoin(LobbyCode, LobbyPlayer(id, FALSE), "function") /\ Beside(FALSE)
  \/ \E id \in CrowdIds :
       Idle /\ RoomsLeave(LobbyCode, id, "undefined") /\ Beside(FALSE)
  \/ Drain

SpecCrowd == Init /\ [][NextCrowd]_vars

(***************************************************************************)
(* One room and the payloads of the game page, which echoes a player back  *)
(* with the tile it computed: the tile is whatever number the client       *)
(* sends, on the board, at its end, before its start or past its end.      *)
(***************************************************************************)
\* GAME_CONFIG.BOARD_SIZE and GAME_CONFIG.STARTING_TILE
BOARD_SIZE == 200
STARTING_TILE == 1

TilePlayer(tile) ==
  Obj(Str(IdP1), Str(Nickname(IdP1)), Str(LobbyColor), Bool(TRUE), Num(tile), Undefined)

TileCandidates ==
  { HostCandidate(IdP1), LobbyPlayer(IdP2, TRUE),
    TilePlayer(BOARD_SIZE), TilePlayer(BOARD_SIZE + 1), TilePlayer(STARTING_TILE - 1) }

NextTiles == Requests({LobbyDraw}, TileCandidates, FALSE)

SpecTiles == Init /\ [][NextTiles]_vars

(***************************************************************************)
(* The annotated server (unnamed/part_001): the handlers of index.ts with  *)
(* connection tracking and the player:joined and player:left               *)
(* notifications.  Its error paths are those of index.ts.  A socket id     *)
(* stands for whichever socket is connected under it: after a disconnect   *)
(* nothing of the old socket is left, so the id can name the next one.     *)
(***************************************************************************)
Sockets == {"s1", "s2"}

UnknownPlayer == <<"U", "n", "k", "n", "o", "w", "n", " ", "P", "l", "a", "y", "e", "r">>

\* faulty variant: the name is looked up after the player was removed
NameGone(players, id) == UnknownPlayer

\* players.find(p => p.id === id)?.name || 'Unknown Player'
NameOrUnknown(players, id) ==
  LET found == {i \in 1..Len(players) : players[i].id = id} IN
  IF found = {} THEN UnknownPlayer
  ELSE LET player == players[CHOOSE i \in found : \A j \in found : i <= j] IN
       IF player.name # <<>> THEN player.name ELSE UnknownPlayer

\* { playerName, roomCode }
Notice(playerName, roomCode) == [playerName |-> playerName, roomCode |-> roomCode]

\* { roomCode, playerId }
Connection(roomCode, playerId) == [roomCode |-> roomCode, playerId |-> playerId]

\* faulty variant: the notification goes out before the snapshot
NoticeThenSnapshot(store, ev, notice) ==
  <<Emit(ev, notice), Emit("rooms:update", store)>>

\* io.emit('rooms:update', rooms); io.emit(ev, notice)
SnapshotThenNotice(store, ev, notice) ==
  <<Emit("rooms:update", store), Emit(ev, notice)>>

\* faulty variant: the socket that creates a room is not tracked
TrackedCreateUntracked(s, host, cb, k) ==
  /\ RoomsCreate(host, cb, k)
  /\ UNCHANGED playerConnections

\* socket.on('rooms:create', (host, cb) => ...) of the socket with id s
TrackedCreate(s, host, cb, k) ==
  /\ RoomsCreate(host, cb, k)
  /\ playerConnections' =
       IF validatePlayer(host)
         THEN Put(playerConnections, s, Connection(generateRoomCode(k), host.id.s))
         ELSE playerConnections

\* socket.on('rooms:join', (code, player, cb) => ...)
TrackedJoin(s, code, player, cb) ==
  IF ~Found(code) \/ ~validatePlayer(player) \/ ~HasPlayers(Get(rooms, code))
    THEN RoomsJoin(code, player, cb) /\ UNCHANGED playerConnections
  ELSE LET room == rooms[code]
           kept == WithoutId(room.players, player.id.s)
           room2 == [room EXCEPT !.players = Append(kept, WithTile1(sanitizePlayer(player)))] IN
       /\ rooms' = Put(rooms, code, room2)
       /\ playerConnections' = Put(playerConnections, s, Connection(code, player.id.s))
       /\ out' = SnapshotThenNotice(rooms', "player:joined", Notice(player.name.s, code))
                 \o CbResult(cb, "rooms:join", room2)

\* faulty variant: the room is kept when its host leaves it empty
TrackedLeaveKeepsRoom(s, code, playerId, cb) ==
  IF ~Found(code) \/ ~HasPlayers(Get(rooms, code))
    THEN RoomsLeave(code, playerId, cb) /\ UNCHANGED playerConnections
  ELSE LET room == rooms[code]
           playerName == NameOrUnknown(room.players, playerId)
           room2 == [room EXCEPT !.players = WithoutId(room.players, playerId)] IN
       /\ playerConnections' = Del(playerConnections, s)
       /\ rooms' = Put(rooms, code, room2)
       /\ out' = SnapshotThenNotice(rooms', "player:left", Notice(playerName, code))
                 \o CbResult(cb, "rooms:leave", [ok |-> TRUE])

\* socket.on('rooms:leave', (code, playerId, cb) => ...)
TrackedLeave(s, code, playerId, cb) ==
  IF ~Found(code) \/ ~HasPlayers(Get(rooms, code))
    THEN RoomsLeave(code, playerId, cb) /\ UNCHANGED playerConnections
  ELSE LET room == rooms[code]
           playerName == NameOrUnknown(room.players, playerId)
           room2 == [room EXCEPT !.players = WithoutId(room.players, playerId)] IN
       /\ playerConnections' = Del(playerConnections, s)
       /\ rooms' = IF room2.hostId = playerId /\ Len(room2.players) = 0
                     THEN Del(rooms, code)
                     ELSE Put(rooms, code, room2)
       /\ out' = SnapshotThenNotice(rooms', "player:left", Notice(playerName, code))
                 \o CbResult(cb, "rooms:leave", [ok |-> TRUE])

\* socket.on('rooms:updatePlayer', ...) and socket.on('rooms:start', ...)
\* are those of index.ts
TrackedUpdatePlayer(s, code, player, cb) ==
  RoomsUpdatePlayer(code, player, cb) /\ UNCHANGED playerConnections

TrackedStart(s, code, cb) ==
  RoomsStart(code, cb) /\ UNCHANGED playerConnections

\* faulty variant: the disconnect takes the player out of its room
TrackedDisconnectLeaves(s) ==
  IF s \in DOMAIN playerConnections
    THEN LET connection == playerConnections[s]
             roomCode == connection.roomCode
             playerId == connection.playerId IN
         /\ rooms' = IF Found(roomCode)
                       THEN Put(rooms, roomCode,
                                [rooms[roomCode] EXCEPT
                                   !.players = WithoutId(@, playerId)])
                       ELSE rooms
         /\ out' = IF Found(roomCode)
                     THEN <<Emit("rooms:update", rooms'),
                            Emit("player:left",
                                 Notice(NameOrUnknown(rooms[roomCode].players, playerId),
                                        roomCode))>>
                     ELSE <<>>
         /\ playerConnections' = Del(playerConnections, s)
    ELSE UNCHANGED <<rooms, out, playerConnections>>

\* socket.on('disconnect', () => ...)
TrackedDisconnect(s) ==
  IF s \in DOMAIN playerConnections
    THEN LET connection == playerConnections[s]
             roomCode == connection.roomCode
             playerId == connection.playerId IN
         /\ out' = IF Found(roomCode)
                     THEN <<Emit("player:left",
                                 Notice(NameOrUnknown(rooms[roomCode].players, playerId),
                                        roomCode))>>
                     ELSE <<>>
         /\ playerConnections' = Del(playerConnections, s)
         /\ UNCHANGED rooms
    ELSE UNCHANGED <<rooms, out, playerConnections>>

\* what a step of the annotated server leaves alone
BesideTracked == UNCHANGED <<atStart, clientVars, loop, call, twin, adapter, animation>>

TrackedCandidates == ValidCandidates \cup {Null}
\* one room, as in the Lobby, and a code no room has
TrackedDraws == {LobbyDraw}
TrackedCodes == RequestCodes(TrackedDraws)

NextTracked ==
  \/ \E host \in TrackedCandidates, k \in TrackedDraws :
       Idle /\ PostRooms(host, k) /\ Beside(FALSE)
  \/ \E s \in Sockets, host \in TrackedCandidates, cb \in Callbacks, k \in TrackedDraws :
       Idle /\ TrackedCreate(s, host, cb, k) /\ BesideTracked
  \/ \E s \in Sockets, code \in TrackedCodes, player \in TrackedCandidates, cb \in Callbacks :
       Idle /\ TrackedJoin(s, code, player, cb) /\ BesideTracked
  \/ \E s \in Sockets, code \in TrackedCodes, playerId \in LeaveIds, cb \in Callbacks :
       Idle /\ TrackedLeave(s, code, playerId, cb) /\ BesideTracked
  \/ \E s \in Sockets, code \in TrackedCodes, player \in TrackedCandidates, cb \in Callbacks :
       Idle /\ TrackedUpdatePlayer(s, code, player, cb) /\ BesideTracked
  \/ \E s \in Sockets, code \in TrackedCodes, cb \in Callbacks :
       Idle /\ TrackedStart(s, code, cb) /\ BesideTracked
  \/ \E s \in Sockets : Idle /\ TrackedDisconnect(s) /\ BesideTracked
  \/ Drain

SpecTracked == Init /\ [][NextTracked]_vars

(***************************************************************************)
(* The event loop, statement by statement.  Requests of several clients    *)
(* arrive in any order and wait in the queue; the loop takes the first and *)
(* runs its handler.  The handlers are synchronous functions (no await, no *)
(* timer, no promise in index.ts): the loop takes the next request when    *)
(* the handler it runs has returned.  The constant `room` of a handler is  *)
(* a reference to the object stored under the code: a statement that       *)
(* assigns to room.players or room.started changes the store.              *)
(***************************************************************************)
\* the number of requests that wait in the event loop
MaxPending == 2

LoopRequests ==
  { Request("rooms:create", HostCandidate(IdP1)),
    Request("rooms:join", LobbyPlayer(IdP1, TRUE)),
    Request("rooms:join", LobbyPlayer(IdP2, FALSE)),
    Request("rooms:leave", Str(IdP1)),
    Request("rooms:leave", Str(IdP2)),
    Request("rooms:updatePlayer", LobbyPlayer(IdP2, TRUE)),
    Request("rooms:start", Undefined) }

\* the store a handler leaves when it runs from its first statement to its
\* last on the given store
Applied(store, req) ==
  LET code == LobbyCode IN
  CASE req.ev = "rooms:create" ->
         IF validatePlayer(req.arg) THEN Put(store, code, NewRoom(code, req.arg)) ELSE store
    [] req.ev = "rooms:join" ->
         IF code \in DOMAIN store /\ validatePlayer(req.arg)
           THEN Join(store, code, req.arg) ELSE store
    [] req.ev = "rooms:leave" ->
         IF code \in DOMAIN store THEN Leave(store, code, req.arg.s) ELSE store
    [] req.ev = "rooms:updatePlayer" ->
         IF code \in DOMAIN store /\ validatePlayer(req.arg)
           THEN Put(store, code,
                    [store[code] EXCEPT !.players =
                       ReplaceId(@, req.arg.id.s, sanitizePlayer(req.arg))])
           ELSE store
    [] req.ev = "rooms:start" ->
         IF code \in DOMAIN store
           THEN Put(store, code, [store[code] EXCEPT !.started = TRUE]) ELSE store

\* a handler that has begun: its request and the statement it is at
Job(req, pc) == [req |-> req, pc |-> pc]

\* a request arrives.  The code a create draws is LobbyCode: a create arrives
\* when no room is in the store and no other create waits or runs
Arrive(req) ==
  /\ Len(loop.queue) < MaxPending
  /\ req.ev = "rooms:create" =>
       /\ rooms = <<>>
       /\ loop.serial = <<>>
       /\ \A i \in 1..Len(loop.queue) : loop.queue[i].ev # "rooms:create"
       /\ \A i \in 1..Len(loop.jobs) : loop.jobs[i].req.ev # "rooms:create"
  /\ loop' = [loop EXCEPT !.queue = Append(@, req)]
  /\ UNCHANGED <<rooms, out>>

\* faulty variant: a handler is suspended between two statements and the loop
\* takes the next request meanwhile
TakesWhileRunning == TRUE

\* the handler that runs has returned
RunToCompletion == loop.jobs = <<>>

\* the loop takes the request that arrived first and calls its handler
Take ==
  /\ RunToCompletion
  /\ loop.queue # <<>>
  /\ loop' = [queue |-> Tail(loop.queue),
              jobs |-> Append(loop.jobs, Job(Head(loop.queue), "enter")),
              serial |-> Applied(loop.serial, Head(loop.queue))]
  /\ out' = <<>>
  /\ UNCHANGED rooms

\* the job i goes to the statement pc
Goto(i, pc) == loop' = [loop EXCEPT !.jobs[i].pc = pc]

\* the job i returns
Return(i) ==
  loop' = [loop EXCEPT !.jobs = SubSeq(@, 1, i - 1) \o SubSeq(@, i + 1, Len(@))]

\* the next statement of the job i.  "enter" is the lookup and the
\* validation with their early returns; "reply" is `rooms[code] = room`,
\* which stores the object where it is already, io.emit and cb
Statement(i) ==
  LET job == loop.jobs[i]
      ev == job.req.ev
      arg == job.req.arg
      code == LobbyCode IN
  \/ /\ job.pc = "enter"
     /\ UNCHANGED rooms
     /\ IF ev = "rooms:create"
          THEN IF validatePlayer(arg)
                 THEN Goto(i, "insert") /\ UNCHANGED out
                 ELSE Return(i) /\ out' = CbError("function", ev, "invalid host data")
        ELSE IF ~Found(code)
          THEN Return(i) /\ out' = CbError("function", ev, "not found")
        ELSE IF ev \in {"rooms:join", "rooms:updatePlayer"} /\ ~validatePlayer(arg)
          THEN Return(i) /\ out' = CbError("function", ev, "invalid player data")
        ELSE /\ Goto(i, CASE ev = "rooms:join" -> "filter"
                          [] ev = "rooms:leave" -> "filter"
                          [] ev = "rooms:updatePlayer" -> "map"
                          [] ev = "rooms:start" -> "flag")
             /\ UNCHANGED out
  \/ \* rooms[code] = room, for the room of the create
     /\ job.pc = "insert"
     /\ code \notin DOMAIN rooms
     /\ rooms' = Put(rooms, code, NewRoom(code, arg))
     /\ Goto(i, "reply")
     /\ UNCHANGED out
  \/ \* room.players = room.players.filter(...)
     /\ job.pc = "filter"
     /\ code \in DOMAIN rooms
     /\ rooms' = [rooms EXCEPT ![code].players =
                     WithoutId(@, IF ev = "rooms:join" THEN arg.id.s ELSE arg.s)]
     /\ Goto(i, IF ev = "rooms:join" THEN "push" ELSE "settle")
     /\ UNCHANGED out
  \/ \* room.players.push({ ...sanitizedPlayer, tile: 1 })
     /\ job.pc = "push"
     /\ code \in DOMAIN rooms
     /\ rooms' = [rooms EXCEPT ![code].players = Append(@, WithTile1(sanitizePlayer(arg)))]
     /\ Goto(i, "reply")
     /\ UNCHANGED out
  \/ \* if (room.hostId === playerId && room.players.length === 0) delete ...
     /\ job.pc = "settle"
     /\ code \in DOMAIN rooms
     /\ rooms' = IF rooms[code].hostId = arg.s /\ Len(rooms[code].players) = 0
                   THEN Del(rooms, code) ELSE rooms
     /\ Goto(i, "reply")
     /\ UNCHANGED out
  \/ \* room.players = room.players.map(...)
     /\ job.pc = "map"
     /\ code \in DOMAIN rooms
     /\ rooms' = [rooms EXCEPT ![code].players =
                     ReplaceId(@, arg.id.s, sanitizePlayer(arg))]
     /\ Goto(i, "reply")
     /\ UNCHANGED out
  \/ \* room.started = true
     /\ job.pc = "flag"
     /\ code \in DOMAIN rooms
     /\ rooms' = [rooms EXCEPT ![code].started = TRUE]
     /\ Goto(i, "reply")
     /\ UNCHANGED out
  \/ /\ job.pc = "reply"
     /\ UNCHANGED rooms
     /\ out' = <<Emit("rooms:update", rooms)>>
               \o CbResult("function", ev,
                           IF ev = "rooms:leave" THEN [ok |-> TRUE] ELSE Get(rooms, code))
     /\ Return(i)

\* what a step of the event loop leaves alone
BesideLoop == UNCHANGED <<atStart, clientVars, playerConnections, call, twin, adapter, animation>>

NextLoop ==
  \/ \E req \in LoopRequests : Arrive(req) /\ BesideLoop
  \/ Take /\ BesideLoop
  \/ \E i \in 1..Len(loop.jobs) : Statement(i) /\ BesideLoop

SpecLoop == Init /\ [][NextLoop]_vars

(***************************************************************************)
(* The server and the Lobby clients: every request is one a Lobby sent,    *)
(* handled when it reaches the server; every broadcast is handled by a     *)
(* Lobby when it reaches the client.                                       *)
(***************************************************************************)
\* the messages of the handler that just ran, as the transports deliver them:
\* the broadcasts to every client whose Lobby listens, the reply to the sender
Delivered(sender, listening) ==
  [d \in LobbyClients |->
     IF d \in listening
       THEN LET ForD(m) == m.kind = "emit" \/ d = sender IN
            toClient[d] \o SelectSeq(out', ForD)
       ELSE <<>>]

Listening == {d \in LobbyClients : lobby[d].phase = "lobby"}

\* the channels are bounded
Within(queues) == \A d \in LobbyClients : Len(queues[d]) <= MaxQueue

\* the create page: POST /rooms, then the Lobby mounts in host mode with the
\* code of the reply and starts its initial sync
CreatePage(c) ==
  /\ Mode(c) = "host"
  /\ lobby[c].phase = "out"
  /\ PostRooms(HostCandidate(c), LobbyDraw)
  /\ lobby' = [lobby EXCEPT ![c] = LobbyState("lobby", TRUE, TRUE)]
  /\ toServer' = [toServer EXCEPT ![c] = <<Request("GET /rooms/:code", Undefined)>>]
  /\ toClient' = Delivered("none", Listening)
  /\ Within(toClient')
  /\ UNCHANGED <<atStart, playerConnections, loop, call, twin, adapter, animation>>

\* the Lobby mounts in join mode with a code: joinRoom, and the initial sync
LobbyMount(c) ==
  /\ Mode(c) = "join"
  /\ lobby[c].phase = "out"
  /\ lobby' = [lobby EXCEPT ![c] = LobbyState("lobby", FALSE, FALSE)]
  /\ toServer' = [toServer EXCEPT ![c] =
                    <<Request("rooms:join", LobbyPlayer(c, FALSE)),
                      Request("GET /rooms/:code", Undefined)>>]
  /\ UNCHANGED <<rooms, out, atStart, toClient, playerConnections, loop, call, twin, adapter, animation>>

\* the handler of the request, with the arguments the client adapter passes
Handle(req) ==
  \/ req.ev = "rooms:join" /\ RoomsJoin(LobbyCode, req.arg, "function")
  \/ req.ev = "rooms:leave" /\ RoomsLeave(LobbyCode, req.arg.s, "undefined")
  \/ req.ev = "rooms:updatePlayer" /\ RoomsUpdatePlayer(LobbyCode, req.arg, "undefined")
  \/ req.ev = "rooms:start" /\ RoomsStart(LobbyCode, "undefined")
  \/ req.ev = "GET /rooms/:code" /\ GetRoomByCode(LobbyCode)

\* the server takes the next request of a client
ServerReceive(c) ==
  /\ toServer[c] # <<>>
  /\ Handle(Head(toServer[c]))
  /\ toServer' = [toServer EXCEPT ![c] = Tail(@)]
  /\ toClient' = Delivered(c, Listening)
  /\ Within(toClient')
  /\ UNCHANGED <<atStart, lobby, playerConnections, loop, call, twin, adapter, animation>>

\* what the Lobby does with a message: a broadcast or the reply of the
\* initial sync goes to handleUpdate, an acknowledgement ends joinRoom
Received(c, l, msg) ==
  IF msg.kind = "emit"
    THEN handleUpdate(c, l, IF LobbyCode \in DOMAIN msg.payload
                              THEN msg.payload[LobbyCode] ELSE Null)
  ELSE IF msg.kind = "http"
    THEN handleUpdate(c, l, IF msg.status = 200 THEN msg.body ELSE Null)
  ELSE JoinAcked(c, l, msg.err)

\* the client takes the next message of the server
ClientReceive(c) ==
  /\ lobby[c].phase = "lobby"
  /\ toClient[c] # <<>>
  /\ LET after == Received(c, lobby[c], Head(toClient[c])) IN
     /\ lobby' = [lobby EXCEPT ![c] = after.l]
     /\ toServer' = [toServer EXCEPT ![c] = @ \o after.send]
     /\ toClient' = [toClient EXCEPT ![c] =
                       IF after.l.phase = "lobby" THEN Tail(@) ELSE <<>>]
  /\ Within(toServer')
  /\ UNCHANGED <<rooms, out, atStart, playerConnections, loop, call, twin, adapter, animation>>

\* handleToggleReady
ToggleReady(c) ==
  /\ lobby[c].phase = "lobby"
  /\ lobby' = [lobby EXCEPT ![c].ready = ~@]
  /\ toServer' = [toServer EXCEPT ![c] =
                    Append(@, Request("rooms:updatePlayer", LobbyPlayer(c, ~lobby[c].ready)))]
  /\ Within(toServer')
  /\ UNCHANGED <<rooms, out, atStart, toClient, playerConnections, loop, call, twin, adapter, animation>>

\* handleStart, when canStart holds (otherwise it alerts and returns)
Start(c) ==
  /\ lobby[c].phase = "lobby"
  /\ canStart(lobby[c])
  /\ lobby' = [lobby EXCEPT ![c] = OnStarted(c, lobby[c]).l]
  /\ toServer' = [toServer EXCEPT ![c] =
                    Append(@, Request("rooms:start", Undefined))
                      \o OnStarted(c, lobby[c]).send]
  /\ toClient' = [toClient EXCEPT ![c] = <<>>]
  /\ Within(toServer')
  /\ UNCHANGED <<rooms, out, atStart, playerConnections, loop, call, twin, adapter, animation>>

\* the Back button: onBack()
Back(c) ==
  /\ lobby[c].phase = "lobby"
  /\ lobby' = [lobby EXCEPT ![c] = OnBack(c, lobby[c]).l]
  /\ toServer' = [toServer EXCEPT ![c] = @ \o OnBack(c, lobby[c]).send]
  /\ toClient' = [toClient EXCEPT ![c] = <<>>]
  /\ Within(toServer')
  /\ UNCHANGED <<rooms, out, atStart, playerConnections, loop, call, twin, adapter, animation>>

NextLobby ==
  \/ \E c \in LobbyClients : CreatePage(c)
  \/ \E c \in LobbyClients : LobbyMount(c)
  \/ \E c \in LobbyClients : ServerReceive(c)
  \/ \E c \in LobbyClients : ClientReceive(c)
  \/ \E c \in LobbyClients : ToggleReady(c)
  \/ \E c \in LobbyClients : Start(c)
  \/ \E c \in LobbyClients : Back(c)

SpecLobby == Init /\ [][NextLobby]_vars

(***************************************************************************)
(* Properties of the room store.                                           *)
(***************************************************************************)
\* the number of records of a players list that carry the id
CountId(players, id) == Cardinality({i \in 1..Len(players) : players[i].id = id})

\* the acknowledgement or HTTP reply among the effects of the last handler
Replies == {out[i] : i \in {j \in 1..Len(out) : out[j].kind \in {"ack", "http"}}}

\* C1: in every reachable state of the room store no room's players list
\* holds two records with the same id.
C1_UniqueIds ==
  \A code \in DOMAIN rooms :
    \A i, j \in 1..Len(rooms[code].players) :
      i # j => rooms[code].players[i].id # rooms[code].players[j].id

\* a room of two players whose host is the last of the list: the host joined
\* again and its old record was replaced
C1_Witness ==
  \E code \in DOMAIN rooms :
    /\ Len(rooms[code].players) = 2
    /\ rooms[code].players[2].id = rooms[code].hostId

\* C2: rooms:leave on a room of the store removes the room iff playerId is the
\* room's hostId and no player with another id is in the list; otherwise the
\* room stays, and a step that removes a room is a rooms:leave step.
C2_LeaveDeletesIff ==
  [][ /\ \A code \in DOMAIN rooms, playerId \in LeaveIds, cb \in Callbacks :
           (Idle /\ RoomsLeave(code, playerId, cb)) =>
             ( (code \notin DOMAIN rooms') <=>
               ( /\ playerId = rooms[code].hostId
                 /\ IdsOf(rooms[code].players) \subseteq {playerId} ) )
      /\ ~(DOMAIN rooms \subseteq DOMAIN rooms') =>
           \E code \in AllCodes, playerId \in LeaveIds, cb \in Callbacks :
             RoomsLeave(code, playerId, cb)
    ]_vars

\* the snapshot broadcast after the last room of the store was deleted
C2_Witness ==
  /\ rooms = <<>>
  /\ Len(out) > 0
  /\ out[1] = Emit("rooms:update", <<>>)

\* C3 as stated: rooms:leave naming an id that is not in the room's list
\* leaves the store unchanged, never deletes the room, and answers {ok: true}.
C3_UnknownLeaveNoOp ==
  [][ \A code \in DOMAIN rooms, playerId \in LeaveIds, cb \in Callbacks :
        ( /\ Idle
          /\ playerId \notin IdsOf(rooms[code].players)
          /\ RoomsLeave(code, playerId, cb) ) =>
          ( /\ rooms' = rooms
            /\ cb = "function" => Ack("rooms:leave", Null, [ok |-> TRUE]) \in Replies' )
    ]_vars

\* C3 amended: the same, except when the id is the hostId of a room whose list
\* is empty: that leave deletes the room (and changes nothing else), and it
\* too answers {ok: true}.
C3_UnknownLeaveNoOpUnlessHostOfEmpty ==
  [][ \A code \in DOMAIN rooms, playerId \in LeaveIds, cb \in Callbacks :
        ( /\ Idle
          /\ playerId \notin IdsOf(rooms[code].players)
          /\ RoomsLeave(code, playerId, cb) ) =>
          ( /\ IF playerId = rooms[code].hostId /\ Len(rooms[code].players) = 0
                 THEN /\ DOMAIN rooms' = (DOMAIN rooms) \ {code}
                      /\ \A other \in DOMAIN rooms' : rooms'[other] = rooms[other]
                 ELSE rooms' = rooms
            /\ cb = "function" => Ack("rooms:leave", Null, [ok |-> TRUE]) \in Replies' )
    ]_vars

\* a room whose list is not empty and lacks its host, acknowledged {ok: true}
\* with the store as broadcast: a leave that removed nobody can end here
C3_Witness ==
  /\ Len(out) = 2
  /\ out[1] = Emit("rooms:update", rooms)
  /\ out[2] = Ack("rooms:leave", Null, [ok |-> TRUE])
  /\ \E code \in DOMAIN rooms :
       /\ Len(rooms[code].players) = 1
       /\ rooms[code].hostId \notin IdsOf(rooms[code].players)


Digits == {DigitChars[i] : i \in 1..Len(DigitChars)}

\* a create request (POST /rooms or rooms:create) with this host and draw
CreateStep(host, k) ==
  /\ Idle
  /\ \/ PostRooms(host, k)
     \/ \E cb \in Callbacks : RoomsCreate(host, cb, k)

\* the store gained exactly one room, created for this host
Created(host, code) ==
  /\ code \notin DOMAIN rooms
  /\ DOMAIN rooms' = (DOMAIN rooms) \cup {code}
  /\ \A other \in DOMAIN rooms : rooms'[other] = rooms[other]
  /\ Len(code) = 4
  /\ \A i \in 1..Len(code) : code[i] \in Digits
  /\ rooms'[code].code = code
  /\ rooms'[code].started = FALSE
  /\ rooms'[code].hostId = host.id.s
  /\ Len(rooms'[code].players) = 1
  /\ rooms'[code].players[1].id = host.id.s
  /\ rooms'[code].players[1].tile = 1

\* C4: for every valid host candidate a create returns a room whose code is a
\* string of 4 digits that was no key of the store, with started = FALSE,
\* hostId the host's id and one player, whose tile is 1; the store afterwards
\* is the store before plus that room.
C4_CreateAddsFreshRoom ==
  [][ \A host \in RoomsCandidates, k \in AllDraws :
        validatePlayer(host) =>
          /\ (Idle /\ PostRooms(host, k)) =>
               \E code \in DOMAIN rooms' :
                 /\ Created(host, code)
                 /\ out'[Len(out')] = Http(201, rooms'[code])
          /\ \A cb \in Callbacks :
               (Idle /\ RoomsCreate(host, cb, k)) =>
                 \E code \in DOMAIN rooms' :
                   /\ Created(host, code)
                   /\ cb = "function" =>
                        out'[Len(out')] = Ack("rooms:create", Null, rooms'[code])
    ]_vars

\* a second room was created, by a host whose candidate carried tile 7, and
\* returned with status 201
C4_Witness ==
  /\ Cardinality(DOMAIN rooms) = 2
  /\ Len(out) = 2
  /\ out[2].kind = "http"
  /\ out[2].status = 201
  /\ out[2].body.players[1].name = <<"A", "l">>
  /\ out[2].body.players[1].tile = 1

C6_RejoinReplaces ==
  [][ \A code \in DOMAIN rooms, player \in Accepted, cb \in Callbacks :
        ( /\ Idle
          /\ player.id.s \in IdsOf(rooms[code].players)
          /\ RoomsJoin(code, player, cb) ) =>
          ( /\ code \in DOMAIN rooms'
            /\ Len(rooms'[code].players) = Len(rooms[code].players)
            /\ CountId(rooms'[code].players, player.id.s) = 1
            /\ \A i \in 1..Len(rooms'[code].players) :
                 rooms'[code].players[i].id = player.id.s =>
                   rooms'[code].players[i].tile = 1 )
    ]_vars

\* the join of the candidate that carries tile 7 was acknowledged with a room
\* of two players whose last is the host, with tile 1
C6_Witness ==
  /\ Len(out) = 2
  /\ out[2].kind = "ack"
  /\ out[2].of = "rooms:join"
  /\ out[2].err = Null
  /\ Len(out[2].res.players) = 2
  /\ out[2].res.players[2].id = out[2].res.hostId
  /\ out[2].res.players[2].name = <<"A", "l">>
  /\ out[2].res.players[2].tile = 1

Others(players, id) ==
  LET Other(p) == p.id # id IN SelectSeq(players, Other)

C9_StartPreventsJoining ==
  \A code \in DOMAIN rooms :
    rooms[code].started =>
      /\ code \in DOMAIN atStart
      /\ IdsOf(rooms[code].players) \subseteq atStart[code]

\* C10: when every rooms:start is one a Lobby sent under canStart, the step
\* of the server that makes started true ends in a room of at least 2
\* players who are all ready.
C10_StartsOnlyWhenAllReady ==
  [][ \A code \in (DOMAIN rooms) \cap (DOMAIN rooms') :
        (~rooms[code].started /\ rooms'[code].started) =>
          /\ Len(rooms'[code].players) >= 2
          /\ \A i \in 1..Len(rooms'[code].players) : rooms'[code].players[i].ready
    ]_vars
\* C11: after any sequence of operations no room holds more than MAX_PLAYERS
\* (6) players.
C11_AtMostMaxPlayers ==
  \A code \in DOMAIN rooms : Len(rooms[code].players) <= MAX_PLAYERS
\* C12: started is monotonic: a room that is started and is still in the
\* store after a step is started after it; no join, leave, updatePlayer,
\* start or disconnect sets the flag back.
C12_StartedMonotonic ==
  [][ \A code \in (DOMAIN rooms) \cap (DOMAIN rooms') :
        rooms[code].started => rooms'[code].started
    ]_vars

\* an updatePlayer was acknowledged with a room that is started
C12_Witness ==
  /\ Len(out) = 2
  /\ out[2].kind = "ack"
  /\ out[2].of = "rooms:updatePlayer"
  /\ out[2].err = Null
  /\ out[2].res.started = TRUE
  /\ rooms[out[2].res.code].started = TRUE

\* C13: a room's hostId is the creating player's id and never changes while
\* the room is in the store; when the host leaves while other players remain
\* the room stays, nobody is made host, and its hostId is the id of none of
\* its players.
C13_HostIdFixed ==
  [][ /\ \A code \in (DOMAIN rooms) \cap (DOMAIN rooms') :
           rooms'[code].hostId = rooms[code].hostId
      /\ \A host \in Accepted, k \in AllDraws :
           CreateStep(host, k) =>
             \A code \in (DOMAIN rooms') \ (DOMAIN rooms) :
               rooms'[code].hostId = host.id.s
      /\ \A code \in DOMAIN rooms, cb \in Callbacks :
           ( /\ Idle
             /\ IdsOf(rooms[code].players) \ {rooms[code].hostId} # {}
             /\ RoomsLeave(code, rooms[code].hostId, cb) ) =>
             ( /\ code \in DOMAIN rooms'
               /\ rooms'[code].players # <<>>
               /\ rooms'[code].hostId \notin IdsOf(rooms'[code].players) )
    ]_vars

\* a room without its host outlived the host's leave: an updatePlayer on it
\* was acknowledged, and its hostId is still the id of none of its players
C13_Witness ==
  /\ Len(out) = 2
  /\ out[2].kind = "ack"
  /\ out[2].of = "rooms:updatePlayer"
  /\ out[2].err = Null
  /\ Len(out[2].res.players) = 1
  /\ out[2].res.hostId \notin IdsOf(out[2].res.players)

\* C14: an updatePlayer of a valid candidate whose id is in the room replaces
\* the record with that id by the sanitized candidate and merges nothing: the
\* new record has the candidate's id, trimmed name and ready, tile 1 when the
\* candidate has no tile, isHost FALSE when it has no isHost; the other
\* records, the length and order of the list, started, hostId and code are
\* as before.
C14_UpdateReplacesRecord ==
  [][ \A code \in DOMAIN rooms, player \in Accepted, cb \in Callbacks :
        ( /\ Idle
          /\ player.id.s \in IdsOf(rooms[code].players)
          /\ RoomsUpdatePlayer(code, player, cb) ) =>
          LET old == rooms[code].players
              new == rooms'[code].players IN
          /\ Len(new) = Len(old)
          /\ \A i \in 1..Len(old) :
               IF old[i].id = player.id.s
                 THEN /\ new[i] = sanitizePlayer(player)
                      /\ new[i].id = player.id.s
                      /\ new[i].name = Trim(player.name.s)
                      /\ new[i].ready = player.ready.b
                      /\ new[i].tile = IF player.tile = Undefined THEN 1 ELSE player.tile.n
                      /\ new[i].isHost = (player.isHost = Bool(TRUE))
                 ELSE new[i] = old[i]
          /\ rooms'[code].started = rooms[code].started
          /\ rooms'[code].hostId = rooms[code].hostId
          /\ rooms'[code].code = rooms[code].code
          /\ DOMAIN rooms' = DOMAIN rooms
    ]_vars

\* an updatePlayer of the host, whose candidate had a tile and no isHost, was
\* acknowledged: the record has the candidate's tile and is no host's, next
\* to another player's record
C14_Witness ==
  /\ Len(out) = 2
  /\ out[2].kind = "ack"
  /\ out[2].of = "rooms:updatePlayer"
  /\ out[2].err = Null
  /\ Len(out[2].res.players) = 2
  /\ out[2].res.players[1].id = out[2].res.hostId
  /\ out[2].res.players[1].tile = 7
  /\ out[2].res.players[1].isHost = FALSE
\* the code of a room that is in the store
IsRoomCode(code) == code \in DOMAIN rooms /\ HasPlayers(rooms[code])

\* the call failed with this error (reported when there is a callback to
\* report it to), the store is as it was and nothing was broadcast
Refused(ev, msg, cb) ==
  /\ rooms' = rooms
  /\ \A i \in 1..Len(out') : out'[i].kind # "emit"
  /\ cb = "function" => out' = <<Ack(ev, Error(msg), Undefined)>>

\* C15: joinRoom, leaveRoom, updatePlayer and startGame with a code, of any
\* form, that is not the code of a room in the store fail with the not-found
\* error; createRoom, joinRoom and updatePlayer with a candidate that
\* validatePlayer rejects fail with the invalid-player error; every such call
\* leaves the store unchanged and broadcasts nothing.
C15_FailuresLeaveNoTrace ==
  [][ /\ \A code \in ErrorCodes, cb \in ErrorCallbacks :
           (Idle /\ ~IsRoomCode(code)) =>
             /\ \A player \in ErrorPayloads :
                  /\ RoomsJoin(code, player, cb) => Refused("rooms:join", "not found", cb)
                  /\ RoomsUpdatePlayer(code, player, cb) =>
                       Refused("rooms:updatePlayer", "not found", cb)
             /\ \A playerId \in LeaveIds :
                  RoomsLeave(code, playerId, cb) => Refused("rooms:leave", "not found", cb)
             /\ RoomsStart(code, cb) => Refused("rooms:start", "not found", cb)
      /\ \A player \in ErrorPayloads, cb \in ErrorCallbacks :
           (Idle /\ ~validatePlayer(player)) =>
             /\ PostRooms(player, LobbyDraw) =>
                  /\ rooms' = rooms
                  /\ out' = <<Http(400, Error("missing or invalid host"))>>
             /\ RoomsCreate(player, cb, LobbyDraw) =>
                  Refused("rooms:create", "invalid host data", cb)
             /\ \A code \in ErrorCodes :
                  IsRoomCode(code) =>
                    /\ RoomsJoin(code, player, cb) =>
                         Refused("rooms:join", "invalid player data", cb)
                    /\ RoomsUpdatePlayer(code, player, cb) =>
                         Refused("rooms:updatePlayer", "invalid player data", cb)
    ]_vars

\* C16: no request makes a handler raise an exception that nobody catches:
\* among the effects of a handler there is never a thrown exception.
C16_NoUnhandledException ==
  \A i \in 1..Len(out) : out[i].kind # "throw"

\* every room that was in the store under another code than the given ones is
\* still there with the same record
SameBut(codes) ==
  \A d \in (DOMAIN rooms) \ codes : d \in DOMAIN rooms' /\ rooms'[d] = rooms[d]

\* C17: a join, leave, updatePlayer or start on code C, successful or failed,
\* leaves the record of every room with another code exactly as it was, and a
\* create leaves every room that already existed exactly as it was.
C17_OtherRoomsUntouched ==
  [][ /\ \A code \in AllCodes, cb \in Callbacks :
           Idle =>
             /\ \A player \in RoomsCandidates :
                  /\ RoomsJoin(code, player, cb) => SameBut({code})
                  /\ RoomsUpdatePlayer(code, player, cb) => SameBut({code})
             /\ \A playerId \in LeaveIds :
                  RoomsLeave(code, playerId, cb) => SameBut({code})
             /\ RoomsStart(code, cb) => SameBut({code})
      /\ \A host \in RoomsCandidates, k \in AllDraws, cb \in Callbacks :
           Idle =>
             /\ PostRooms(host, k) => SameBut({})
             /\ RoomsCreate(host, cb, k) => SameBut({})
    ]_vars

\* of two rooms with the same single player one was started, and the start
\* was acknowledged, while the other is still not started
C17_Witness ==
  /\ Cardinality(DOMAIN rooms) = 2
  /\ Len(out) = 2
  /\ out[2].kind = "ack"
  /\ out[2].of = "rooms:start"
  /\ \E c, d \in DOMAIN rooms :
       /\ out[2].res = rooms[c]
       /\ rooms[c].started
       /\ ~rooms[d].started
       /\ Len(rooms[d].players) = 1
       /\ rooms[c].players = rooms[d].players

\* the handler broadcast one message, a rooms:update whose payload is the
\* whole store as the handler left it
BroadcastsStore ==
  \E i \in 1..Len(out') :
    /\ out'[i] = Emit("rooms:update", rooms')
    /\ \A j \in 1..Len(out') : out'[j].kind = "emit" => j = i

\* C18: every successful create, join, leave, updatePlayer and start
\* broadcasts one rooms:update whose payload is the entire store as it stands
\* after the mutation, also when the leave deleted the room, which is then
\* absent from the payload.
C18_SuccessBroadcastsStore ==
  [][ \A cb \in Callbacks :
        Idle =>
          /\ \A host \in RoomsCandidates, k \in AllDraws :
               validatePlayer(host) =>
                 /\ PostRooms(host, k) => BroadcastsStore
                 /\ RoomsCreate(host, cb, k) => BroadcastsStore
          /\ \A code \in DOMAIN rooms :
               /\ \A player \in RoomsCandidates :
                    validatePlayer(player) =>
                      /\ RoomsJoin(code, player, cb) => BroadcastsStore
                      /\ RoomsUpdatePlayer(code, player, cb) => BroadcastsStore
               /\ \A playerId \in LeaveIds :
                    RoomsLeave(code, playerId, cb) =>
                      /\ BroadcastsStore
                      /\ code \notin DOMAIN rooms' =>
                           \E i \in 1..Len(out') :
                             /\ out'[i].kind = "emit"
                             /\ code \notin DOMAIN out'[i].payload
               /\ RoomsStart(code, cb) => BroadcastsStore
    ]_vars

\* the host left the only room: the room was deleted, the empty store was
\* broadcast and the leave was acknowledged
C18_Witness ==
  /\ rooms = <<>>
  /\ out = <<Emit("rooms:update", <<>>), Ack("rooms:leave", Null, [ok |-> TRUE])>>

\* the payloads of the notifications `ev` among the effects of the handler
\* that just ran, one for each
Notices(ev) ==
  LET at == {i \in 1..Len(out') : out'[i].kind = "emit" /\ out'[i].ev = ev} IN
  [i \in at |-> out'[i].payload]

\* exactly one notification `ev` was broadcast, with this payload
OneNotice(ev, payload) ==
  /\ Cardinality(DOMAIN Notices(ev)) = 1
  /\ \A i \in DOMAIN Notices(ev) : Notices(ev)[i] = payload

C20_DisconnectKeepsStore ==
  [][ \A s \in Sockets :
        (Idle /\ TrackedDisconnect(s)) =>
          /\ rooms' = rooms
          /\ Len(out') <= 1
          /\ \A i \in 1..Len(out') :
               /\ out'[i].kind = "emit"
               /\ out'[i].ev = "player:left"
               /\ out'[i].payload.roomCode = playerConnections[s].roomCode
          /\ (s \in DOMAIN playerConnections
                /\ playerConnections[s].roomCode \in DOMAIN rooms) => Len(out') = 1
          /\ DOMAIN playerConnections' = (DOMAIN playerConnections) \ {s}
          /\ \A t \in DOMAIN playerConnections' :
               playerConnections'[t] = playerConnections[t]
    ]_vars

\* a socket whose player is in a room was disconnected: the notification
\* names the player, who is still in the room's list
C20_Witness ==
  /\ Len(out) = 1
  /\ out[1].kind = "emit"
  /\ out[1].ev = "player:left"
  /\ out[1].payload.roomCode \in DOMAIN rooms
  /\ \E i \in 1..Len(rooms[out[1].payload.roomCode].players) :
       rooms[out[1].payload.roomCode].players[i].name = out[1].payload.playerName

\* the callback was invoked once, with an error and no result or with no
\* error and a result
AckedOnce(ev) ==
  LET acks == {i \in 1..Len(out') : out'[i].kind = "ack"} IN
  /\ Cardinality(acks) = 1
  /\ \A i \in acks :
       /\ out'[i].of = ev
       /\ \/ out'[i].err # Null /\ out'[i].res = Undefined
          \/ out'[i].err = Null /\ out'[i].res # Undefined

\* C21: every rooms:create, rooms:join, rooms:leave, rooms:updatePlayer and
\* rooms:start request that carries an acknowledgement callback gets the
\* callback invoked exactly once, with either an error and no result or no
\* error and a result.
C21_AckExactlyOnce ==
  [][ \A code \in ErrorCodes :
        Idle =>
          /\ \A player \in ErrorPayloads :
               /\ RoomsCreate(player, "function", LobbyDraw) => AckedOnce("rooms:create")
               /\ RoomsJoin(code, player, "function") => AckedOnce("rooms:join")
               /\ RoomsUpdatePlayer(code, player, "function") =>
                    AckedOnce("rooms:updatePlayer")
          /\ \A playerId \in LeaveIds :
               RoomsLeave(code, playerId, "function") => AckedOnce("rooms:leave")
          /\ RoomsStart(code, "function") => AckedOnce("rooms:start")
    ]_vars

\* C22: a rooms:leave applied a second time with the same code and id leaves
\* the store as the first left it, for every store, code and id.
C22_LeaveTwiceAsOnce ==
  [][ \A code \in AllCodes, playerId \in LeaveIds, cb \in Callbacks :
        (Idle /\ RoomsLeave(code, playerId, cb)) =>
          (IF code \in DOMAIN rooms' THEN Leave(rooms', code, playerId) ELSE rooms') = rooms'
    ]_vars

\* the host left a room where another player stays: the room is kept, and a
\* second leave of the host finds a list that is not empty
C22_Witness ==
  /\ Len(out) = 2
  /\ out[1] = Emit("rooms:update", rooms)
  /\ out[2] = Ack("rooms:leave", Null, [ok |-> TRUE])
  /\ \E code \in DOMAIN rooms :
       /\ rooms[code].hostId = IdP1
       /\ IdsOf(rooms[code].players) = {IdP2}

\* C23: a rooms:join applied a second time with the same code and candidate
\* leaves the store as the first left it: the same players in the same order,
\* no duplicate.
C23_JoinTwiceAsOnce ==
  [][ \A code \in DOMAIN rooms, player \in Accepted, cb \in Callbacks :
        (Idle /\ RoomsJoin(code, player, cb)) =>
          /\ code \in DOMAIN rooms'
          /\ Join(rooms', code, player) = rooms'
    ]_vars

\* the host joined its room again beside another player: its new record is
\* the last of two, and a second join would move nothing
C23_Witness ==
  /\ Len(out) = 2
  /\ out[2].kind = "ack"
  /\ out[2].of = "rooms:join"
  /\ out[2].err = Null
  /\ Len(out[2].res.players) = 2
  /\ out[2].res.players[1].id = IdP2
  /\ out[2].res.players[2].id = out[2].res.hostId
  /\ out[2].res.players[2].name = <<"A", "n", "n">>

\* C24: requests of concurrent clients on one room are serialized: one
\* handler runs at a time; a handler that begins finds the store that the
\* handlers before it, applied whole in arrival order, have left; and when it
\* has made its last change the store is the one the same handlers and itself,
\* applied whole in arrival order, leave.  No request finds a store with a
\* part of another handler's changes.
C24_Serialized ==
  /\ Len(loop.jobs) <= 1
  /\ loop.jobs = <<>> => rooms = loop.serial
  /\ \A i \in 1..Len(loop.jobs) :
       /\ loop.jobs[i].pc = "enter" => Applied(rooms, loop.jobs[i].req) = loop.serial
       /\ loop.jobs[i].pc = "reply" => rooms = loop.serial

\* a join has filtered the old record of its id out of the list and not yet
\* pushed the new one, while a second join with the same id waits: the store
\* is between two states, and the waiting request is not looked at
C24_Witness ==
  /\ Len(loop.jobs) = 1
  /\ loop.jobs[1].pc = "push"
  /\ rooms # loop.serial
  /\ Len(loop.queue) >= 1
  /\ loop.queue[1] = loop.jobs[1].req
  /\ LobbyCode \in DOMAIN rooms
  /\ loop.jobs[1].req.arg.id.s = rooms[LobbyCode].hostId
  /\ rooms[LobbyCode].players = <<>>

\* C25: in every reachable state, for every room and every player stored in
\* it, the stored isHost flag is TRUE exactly when the player's id is the
\* room's hostId.
C25_IsHostDerived ==
  \A code \in DOMAIN rooms :
    \A i \in 1..Len(rooms[code].players) :
      rooms[code].players[i].isHost = (rooms[code].players[i].id = rooms[code].hostId)

\* C26: in every reachable state every stored player's tile is an integer
\* from 1 to 200.
C26_TileOnBoard ==
  \A code \in DOMAIN rooms :
    \A i \in 1..Len(rooms[code].players) :
      rooms[code].players[i].tile \in STARTING_TILE..BOARD_SIZE

(***************************************************************************)
(* The helper functions of types.ts called on their own, on any value a    *)
(* client can put on the wire: objects whose properties are missing, of    *)
(* the wrong type, empty or padded, and values that are no objects.        *)
(***************************************************************************)
Bo == <<"B", "o">>
Padded(s) == <<" ", " ">> \o s \o <<" ", " ">>

CallIds == {Undefined, Str(<<>>), Str(IdP1), Num(123)}
CallNames == {Undefined, Str(<<>>), Str(<<" ", "\t">>), Str(Bo), Str(Padded(Bo)), Num(5)}
CallColors == {Null, Str(<<>>), Str(White)}
CallReadys == {Undefined, Bool(TRUE), Bool(FALSE), Str(<<"y", "e", "s">>)}
CallTiles == {Undefined, Num(7), Str(<<"7">>)}
CallIsHosts == {Undefined, Bool(TRUE)}

CallInputs ==
  { Obj(id, name, color, ready, tile, isHost) :
      id \in CallIds, name \in CallNames, color \in CallColors,
      ready \in CallReadys, tile \in CallTiles, isHost \in CallIsHosts }
  \cup {Null, Undefined, Num(0), Num(1), Bool(TRUE), Str(<<>>), Str(Bo)}

\* a player record as the object a client holds after JSON.parse of a
\* snapshot, and sends back
AsCandidate(p) ==
  Obj(Str(p.id), Str(p.name), Str(p.color), Bool(p.ready), Num(p.tile), Bool(p.isHost))

InitCalls ==
  /\ rooms = <<>>
  /\ out = <<>>
  /\ atStart = <<>>
  /\ lobby = [c \in LobbyClients |-> LobbyState("out", FALSE, FALSE)]
  /\ toServer = [c \in LobbyClients |-> <<>>]
  /\ toClient = [c \in LobbyClients |-> <<>>]
  /\ playerConnections = <<>>
  /\ loop = [queue |-> <<>>, jobs |-> <<>>, serial |-> <<>>]
  /\ \E v \in CallInputs : call = [at |-> "called", input |-> v]
  /\ twin = [server |-> "none"]
  /\ adapter = [socket |-> 0]
  /\ animation = NotRolling

BesideCall ==
  UNCHANGED <<rooms, out, atStart, clientVars, playerConnections, loop, twin, adapter, animation>>

\* validatePlayer(input)
Validate ==
  /\ call.at = "called"
  /\ call' = [at |-> "validated", input |-> call.input,
              result |-> Bool(validatePlayer(call.input))]
  /\ BesideCall

\* sanitizePlayer(input)
Sanitize ==
  /\ call.at = "called"
  /\ call' = [at |-> "sanitized", input |-> call.input,
              result |-> sanitizePlayer(call.input)]
  /\ BesideCall

\* sanitizePlayer(x) for x the record a call of sanitizePlayer returned
SanitizeAgain ==
  /\ call.at = "sanitized"
  /\ call.result # Thrown("TypeError")
  /\ call' = [at |-> "resanitized", input |-> call.input, first |-> call.result,
              result |-> sanitizePlayer(AsCandidate(call.result))]
  /\ BesideCall

NextCalls == Validate \/ Sanitize \/ SanitizeAgain

SpecCalls == InitCalls /\ [][NextCalls]_vars

\* C27: validatePlayer returns true exactly when its argument is an object with
\* a non-empty string id, a string name that has a character other than white
\* space, a string color and a boolean ready; every other argument is
\* rejected with a value, not an exception.
WellFormed(v) ==
  /\ v.t = "object"
  /\ v.id.t = "string" /\ v.id.s # <<>>
  /\ v.name.t = "string"
  /\ \E i \in 1..Len(v.name.s) : v.name.s[i] \notin WhiteSpace
  /\ v.color.t = "string"
  /\ v.ready.t = "boolean"

C27_ValidateExactly ==
  call.at = "validated" =>
    /\ call.result \in {Bool(TRUE), Bool(FALSE)}
    /\ call.result = Bool(TRUE) <=> WellFormed(call.input)

C27_Witness ==
  /\ call.at = "validated"
  /\ call.result = Bool(FALSE)
  /\ call.input.t = "object"
  /\ call.input.id = Str(IdP1)
  /\ call.input.name = Str(<<" ", "\t">>)
  /\ call.input.color = Str(White)
  /\ call.input.ready = Bool(TRUE)

\* C28: whatever value sanitizePlayer is called with, it returns a player
\* record: a string id, a trimmed string name, a string color that is
\* '#ef4444' where the input had none, a boolean ready, a boolean isHost and
\* a numeric tile that is the input's when that is a number and 1 otherwise.
IsChars(s) == DOMAIN s = 1..Len(s) /\ \A i \in 1..Len(s) : s[i] \in STRING

C28_SanitizeTotal ==
  call.at = "sanitized" =>
    /\ DOMAIN call.result = {"id", "name", "color", "ready", "tile", "isHost"}
    /\ IsChars(call.result.id)
    /\ IsChars(call.result.name) /\ call.result.name = Trim(call.result.name)
    /\ IsChars(call.result.color)
    /\ Prop(call.input, "color") \in {Null, Undefined, Str(<<>>)}
         => call.result.color = DefaultColor
    /\ call.result.ready \in BOOLEAN
    /\ call.result.isHost \in BOOLEAN
    /\ call.result.tile \in Int
    /\ call.result.tile = IF Prop(call.input, "tile").t = "number"
                             THEN Prop(call.input, "tile").n ELSE 1

\* C29: sanitizePlayer applied to a record that sanitizePlayer returned gives
\* that record back, field by field.
C29_SanitizeIdempotent ==
  call.at = "resanitized" =>
    \A f \in {"id", "name", "color", "ready", "tile", "isHost"} :
      call.result[f] = call.first[f]

C29_Witness ==
  /\ call.at = "resanitized"
  /\ call.input = Obj(Num(123), Str(Padded(Bo)), Null, Str(<<"y", "e", "s">>), Undefined, Undefined)
  /\ call.first = [id |-> <<"1", "2", "3">>, name |-> Bo, color |-> DefaultColor,
                   ready |-> TRUE, tile |-> 1, isHost |-> FALSE]

(***************************************************************************)
(* Dice and movement.  rollDice lives in frontend/lib/rooms and the server *)
(* behind it; the game page (MainMenu.tsx) calls it and reads turnOrder    *)
(* and currentPlayerIndex off the room.  The operation is written here     *)
(* from its description: two dice, a move that is refused as a whole when  *)
(* it would pass the last tile, and the turn handed to the next player.    *)
(***************************************************************************)
DICE_MIN == 2
DICE_MAX == 12

\* the faces of one die
DieFaces == 1..(DICE_MAX \div DICE_MIN)

\* Both players stand one full roll short of the last tile, where a game
\* that began on STARTING_TILE gets to; from here the rolls that fit, the
\* roll that lands on the last tile and the rolls that overshoot all occur.
DiceStart == BOARD_SIZE - DICE_MAX

GamePlayer(c) ==
  [sanitizePlayer(LobbyPlayer(c, TRUE)) EXCEPT !.tile = DiceStart]

GameRoom ==
  [code |-> LobbyCode,
   players |-> <<[GamePlayer(IdP1) EXCEPT !.isHost = TRUE], GamePlayer(IdP2)>>,
   started |-> TRUE,
   hostId |-> IdP1,
   turnOrder |-> <<IdP1, IdP2>>,
   currentPlayerIndex |-> 0]

InitDice ==
  /\ rooms = [c \in {LobbyCode} |-> GameRoom]
  /\ out = <<>>
  /\ atStart = <<>>
  /\ lobby = [c \in LobbyClients |-> LobbyState("out", FALSE, FALSE)]
  /\ toServer = [c \in LobbyClients |-> <<>>]
  /\ toClient = [c \in LobbyClients |-> <<>>]
  /\ playerConnections = <<>>
  /\ loop = [queue |-> <<>>, jobs |-> <<>>, serial |-> <<>>]
  /\ call = [at |-> "none"]
  /\ twin = [server |-> "none"]
  /\ adapter = [socket |-> 0]
  /\ animation = NotRolling

\* faulty variant: an overshooting roll moves the piece to the last tile
MovedToTheEnd(tile, roll) ==
  IF tile + roll > BOARD_SIZE THEN BOARD_SIZE ELSE tile + roll

\* the tile after a roll: a roll past the last tile does not move the piece
Moved(tile, roll) ==
  IF tile + roll > BOARD_SIZE THEN tile ELSE tile + roll

\* the id whose turn it is: room.turnOrder[room.currentPlayerIndex]
TurnHolder(room) == room.turnOrder[room.currentPlayerIndex + 1]

\* faulty variant: the turn stays with the player who rolled
NextTurnStays(room) == room.currentPlayerIndex

\* the index of the turn after this one: the next entry of turnOrder, the
\* first after the last
NextTurn(room) == (room.currentPlayerIndex + 1) % Len(room.turnOrder)

\* the players list with the tile of `id` moved by the roll
Advance(players, id, roll) ==
  [i \in 1..Len(players) |->
     IF players[i].id = id
       THEN [players[i] EXCEPT !.tile = Moved(players[i].tile, roll)]
       ELSE players[i]]

\* rollDice(code, playerId), the dice showing d1 and d2
RollDice(code, playerId, d1, d2) ==
  /\ IF ~Found(code)
       THEN /\ out' = <<Ack("rollDice", Error("not found"), Undefined)>>
            /\ UNCHANGED rooms
     ELSE IF TurnHolder(rooms[code]) # playerId
       THEN /\ out' = <<Ack("rollDice", Error("not your turn"), Undefined)>>
            /\ UNCHANGED rooms
     ELSE LET room == rooms[code]
              roll == d1 + d2
          IN /\ rooms' = Put(rooms, code,
                             [room EXCEPT
                                !.players = Advance(room.players, playerId, roll),
                                !.currentPlayerIndex = NextTurn(room)])
             /\ out' = <<Emit("rooms:update", rooms'),
                         Ack("rollDice", Null, [diceRoll |-> roll])>>
  /\ UNCHANGED <<atStart, clientVars, playerConnections, loop, call, twin, adapter, animation>>

NextDice ==
  \E code \in RequestCodes({LobbyDraw}), playerId \in PlayerIds, d1, d2 \in DieFaces :
    RollDice(code, playerId, d1, d2)

SpecDice == InitDice /\ [][NextDice]_vars

\* the tile of the player `id` in a players list
TileOf(players, id) ==
  LET i == CHOOSE i \in 1..Len(players) : players[i].id = id IN players[i].tile

\* C30: a roll is an integer from 2 to 12; a roll that would take the rolling
\* player (the turn holder, whose request alone a roll answers) past tile 200 leaves that player's tile as it was, every other roll
\* advances it by exactly the roll, so the tile after a roll is never past 200;
\* the tiles of the other players stay as they were.
C30_RollMovesOrStays ==
  [][ (Len(out') = 2 /\ out'[2].of = "rollDice") =>
        LET playerId == TurnHolder(rooms[LobbyCode])
            before == TileOf(rooms[LobbyCode].players, playerId)
            after == TileOf(rooms'[LobbyCode].players, playerId)
            roll == out'[2].res.diceRoll
        IN /\ roll \in DICE_MIN..DICE_MAX
           /\ before + roll > BOARD_SIZE => after = before
           /\ before + roll <= BOARD_SIZE => after = before + roll
           /\ after <= BOARD_SIZE
           /\ \A other \in PlayerIds \ {playerId} :
                TileOf(rooms'[LobbyCode].players, other)
                  = TileOf(rooms[LobbyCode].players, other) ]_vars

\* a player two tiles short of the end has rolled more than two and stayed
C30_Witness ==
  /\ Len(out) = 2
  /\ out[2].res.diceRoll > 2
  /\ TurnHolder(rooms[LobbyCode]) = IdP2
  /\ TileOf(rooms[LobbyCode].players, IdP1) = BOARD_SIZE - 2
  /\ TileOf(rooms[LobbyCode].players, IdP2) = BOARD_SIZE

\* the id that follows `id` in a players list, the first following the last
After(players, id) ==
  LET i == CHOOSE i \in 1..Len(players) : players[i].id = id
  IN players[(i % Len(players)) + 1].id

\* C31: a roll requested by a player who is not the turn holder fails and
\* leaves the store as it was; a successful roll hands the turn to the player
\* after the roller in players order, so the player who just moved is not the
\* one to move next while another player waits.
C31_TurnsAlternate ==
  [][ /\ \A playerId \in PlayerIds \ {TurnHolder(rooms[LobbyCode])}, d1, d2 \in DieFaces :
           RollDice(LobbyCode, playerId, d1, d2) =>
             /\ rooms' = rooms
             /\ Len(out') = 1 /\ out'[1].kind = "ack" /\ out'[1].err # Null
      /\ (Len(out') = 2 /\ out'[2].of = "rollDice") =>
           LET roller == TurnHolder(rooms[LobbyCode])
           IN /\ TurnHolder(rooms'[LobbyCode])
                   = After(rooms[LobbyCode].players, roller)
              /\ TurnHolder(rooms'[LobbyCode]) # roller
              /\ \A other \in PlayerIds \ {roller} :
                   TileOf(rooms'[LobbyCode].players, other)
                     = TileOf(rooms[LobbyCode].players, other) ]_vars

\* the first player has moved, and has asked to roll again out of turn
C31_Witness ==
  /\ out = <<Ack("rollDice", Error("not your turn"), Undefined)>>
  /\ TurnHolder(rooms[LobbyCode]) = IdP2
  /\ TileOf(rooms[LobbyCode].players, IdP1) > DiceStart
  /\ TileOf(rooms[LobbyCode].players, IdP2) = DiceStart

(***************************************************************************)
(* One room and three players who join, toggle Ready and leave in any      *)
(* order: the order of the players list.                                   *)
(***************************************************************************)
OrderIds == {<<"q", DigitChars[i + 1]>> : i \in 1..3}
OrderHost == <<"q", DigitChars[2]>>

NextOrder ==
  \/ Idle /\ PostRooms(HostCandidate(OrderHost), LobbyDraw) /\ Beside(FALSE)
  \/ \E id \in OrderIds :
       Idle /\ RoomsJoin(LobbyCode, LobbyPlayer(id, FALSE), "function") /\ Beside(FALSE)
  \/ \E id \in OrderIds :
       Idle /\ RoomsLeave(LobbyCode, id, "function") /\ Beside(FALSE)
  \/ \E id \in OrderIds :
       Idle /\ RoomsUpdatePlayer(LobbyCode, LobbyPlayer(id, TRUE), "function") /\ Beside(FALSE)
  \/ Drain

SpecOrder == Init /\ [][NextOrder]_vars

\* a record of `a` stands before a record of `b` in the list
Before(players, a, b) ==
  \E i, j \in 1..Len(players) : i < j /\ players[i].id = a /\ players[j].id = b

\* the records of the list whose id is not `id`
RecordsBut(players, id) == {players[i] : i \in {j \in 1..Len(players) : players[j].id # id}}

\* the two lists hold the players other than `id` in the same order
SameOrder(old, new, id) ==
  \A a, b \in (IdsOf(old) \cup IdsOf(new)) \ {id} :
    Before(new, a, b) <=> Before(old, a, b)

\* C32: a join leaves the old list without the records of the joining id,
\* in their order, followed by the new record at the end, so a player who
\* rejoins moves to the last position; a leave and an updatePlayer keep the
\* order of the players who remain.
C32_JoinOrderKept ==
  [][ \A id \in OrderIds :
        (Idle /\ LobbyCode \in DOMAIN rooms) =>
          LET old == rooms[LobbyCode].players
              new == rooms'[LobbyCode].players
          IN /\ RoomsJoin(LobbyCode, LobbyPlayer(id, FALSE), "function") =>
                  /\ Len(new) = Cardinality(RecordsBut(old, id)) + 1
                  /\ new[Len(new)].id = id
                  /\ RecordsBut(new, id) = RecordsBut(old, id)
                  /\ SameOrder(old, new, id)
             /\ (RoomsLeave(LobbyCode, id, "function") /\ LobbyCode \in DOMAIN rooms') =>
                  /\ Len(new) = Cardinality(RecordsBut(old, id))
                  /\ RecordsBut(new, id) = RecordsBut(old, id)
                  /\ id \notin IdsOf(new)
                  /\ SameOrder(old, new, id)
             /\ RoomsUpdatePlayer(LobbyCode, LobbyPlayer(id, TRUE), "function") =>
                  /\ Len(new) = Len(old)
                  /\ \A i \in 1..Len(old) : new[i].id = old[i].id ]_vars

\* the host has joined again behind two others and now stands last
C32_Witness ==
  /\ LobbyCode \in DOMAIN rooms
  /\ Len(rooms[LobbyCode].players) = 3
  /\ rooms[LobbyCode].players[3].id = OrderHost
  /\ rooms[LobbyCode].players[3].isHost = FALSE
  /\ Len(out) = 2 /\ out[2].of = "rooms:join"

\* the effects of the step are a rooms:update, then the notification `ev`,
\* then the acknowledgement if one was asked for, and nothing else
InOrder(ev, cb) ==
  /\ Len(out') = IF cb = "function" THEN 3 ELSE 2
  /\ out'[1].kind = "emit" /\ out'[1].ev = "rooms:update"
  /\ out'[2].kind = "emit" /\ out'[2].ev = ev
  /\ cb = "function" => out'[3].kind = "ack"

\* C33: a successful rooms:join and a rooms:leave on a room of the store emit
\* the rooms:update snapshot first, then player:joined or player:left, and call
\* the acknowledgement last; the snapshot is the store after the join or the
\* leave: it holds the joining player in the room, and no longer holds the
\* leaving one.
C33_SnapshotBeforeNotice ==
  [][ \A s \in Sockets, code \in DOMAIN rooms, cb \in Callbacks :
        Idle =>
          /\ \A player \in TrackedCandidates :
               (validatePlayer(player) /\ TrackedJoin(s, code, player, cb)) =>
                 /\ InOrder("player:joined", cb)
                 /\ out'[1].payload = rooms'
                 /\ code \in DOMAIN out'[1].payload
                 /\ player.id.s \in IdsOf(out'[1].payload[code].players)
          /\ \A playerId \in LeaveIds :
               TrackedLeave(s, code, playerId, cb) =>
                 /\ InOrder("player:left", cb)
                 /\ out'[1].payload = rooms'
                 /\ code \in DOMAIN out'[1].payload
                      => playerId \notin IdsOf(out'[1].payload[code].players) ]_vars

\* a player has left a room that stays, with an acknowledgement asked for
C33_Witness ==
  /\ Len(out) = 3
  /\ out[2].kind = "emit" /\ out[2].ev = "player:left"
  /\ out[2].payload.playerName # UnknownPlayer
  /\ out[3].kind = "ack"
  /\ out[2].payload.roomCode \in DOMAIN rooms

\* the rooms:leave requests of the client that are on their way
LeavesOf(queue) ==
  Cardinality({i \in 1..Len(queue) : queue[i].ev = "rooms:leave"})

\* C34: a Lobby sends rooms:leave for its player only as it unmounts through
\* onBack with joinedRef set and gameStartedRef not set; the step to the game,
\* by the host who started it or by a client whose update showed started,
\* sends none, so a client that is in the game has no leave on its way.
C34_NoLeaveOnGameStart ==
  [][ \A c \in LobbyClients :
        /\ LeavesOf(toServer'[c]) > LeavesOf(toServer[c]) =>
             /\ lobby[c].phase = "lobby" /\ lobby'[c].phase = "gone"
             /\ lobby[c].joined /\ ~lobby[c].gameStarted
        /\ lobby'[c].phase = "game" => LeavesOf(toServer'[c]) = 0 ]_vars

\* both clients are in the game, the second after an update that showed
\* started, and both players are still in the room
C34_Witness ==
  /\ \A c \in LobbyClients : lobby[c].phase = "game"
  /\ LobbyCode \in DOMAIN rooms
  /\ rooms[LobbyCode].started
  /\ IdsOf(rooms[LobbyCode].players) = PlayerIds
  /\ \A c \in LobbyClients : toServer[c] = <<>>

TwinCandidates ==
  { HostCandidate(IdP1), LobbyPlayer(IdP2, TRUE), Null }
TwinCodes == TrackedCodes \cup {Constructor}

\* a request as both servers receive it: the event, the socket it came on
\* and the arguments
TwinRequests ==
  { [ev |-> "POST /rooms", s |-> "http", arg |-> host, k |-> LobbyDraw] :
      host \in TwinCandidates }
  \cup { [ev |-> "GET /rooms/:code", s |-> "http", code |-> code] : code \in TwinCodes }
  \cup { [ev |-> "rooms:create", s |-> s, arg |-> host, cb |-> cb, k |-> LobbyDraw] :
      s \in Sockets, host \in TwinCandidates, cb \in Callbacks }
  \cup { [ev |-> ev, s |-> s, code |-> code, arg |-> player, cb |-> cb] :
      ev \in {"rooms:join", "rooms:updatePlayer"}, s \in Sockets,
      code \in TwinCodes, player \in TwinCandidates, cb \in Callbacks }
  \cup { [ev |-> "rooms:leave", s |-> s, code |-> code, arg |-> playerId, cb |-> cb] :
      s \in Sockets, code \in TwinCodes, playerId \in PlayerIds, cb \in Callbacks }
  \cup { [ev |-> "rooms:start", s |-> s, code |-> code, cb |-> cb] :
      s \in Sockets, code \in TwinCodes, cb \in Callbacks }
  \cup { [ev |-> "disconnect", s |-> s] : s \in Sockets }

\* the handler of index.ts for the request
IndexHandles(req) ==
  /\ \/ req.ev = "POST /rooms" /\ PostRooms(req.arg, req.k)
     \/ req.ev = "GET /rooms/:code" /\ GetRoomByCode(req.code)
     \/ req.ev = "rooms:create" /\ RoomsCreate(req.arg, req.cb, req.k)
     \/ req.ev = "rooms:join" /\ RoomsJoin(req.code, req.arg, req.cb)
     \/ req.ev = "rooms:leave" /\ RoomsLeave(req.code, req.arg, req.cb)
     \/ req.ev = "rooms:updatePlayer" /\ RoomsUpdatePlayer(req.code, req.arg, req.cb)
     \/ req.ev = "rooms:start" /\ RoomsStart(req.code, req.cb)
     \/ req.ev = "disconnect" /\ Disconnect
  /\ UNCHANGED playerConnections

\* the handler of the annotated server for the request; its HTTP endpoints
\* are those of index.ts
AnnotatedHandles(req) ==
  \/ req.ev = "POST /rooms" /\ PostRooms(req.arg, req.k) /\ UNCHANGED playerConnections
  \/ req.ev = "GET /rooms/:code" /\ GetRoomByCode(req.code) /\ UNCHANGED playerConnections
  \/ req.ev = "rooms:create" /\ TrackedCreate(req.s, req.arg, req.cb, req.k)
  \/ req.ev = "rooms:join" /\ TrackedJoin(req.s, req.code, req.arg, req.cb)
  \/ req.ev = "rooms:leave" /\ TrackedLeave(req.s, req.code, req.arg, req.cb)
  \/ req.ev = "rooms:updatePlayer" /\ TrackedUpdatePlayer(req.s, req.code, req.arg, req.cb)
  \/ req.ev = "rooms:start" /\ TrackedStart(req.s, req.code, req.cb)
  \/ req.ev = "disconnect" /\ TrackedDisconnect(req.s)

\* the server whose store is in rooms handles the request
Serves(req) ==
  IF twin.server = "annotated" THEN IndexHandles(req) ELSE AnnotatedHandles(req)

BesideTwin == UNCHANGED <<atStart, clientVars, loop, call, adapter, animation>>

NoRequest == [ev |-> "none"]

InitTwin ==
  /\ rooms = <<>>
  /\ out = <<>>
  /\ atStart = <<>>
  /\ lobby = [c \in LobbyClients |-> LobbyState("out", FALSE, FALSE)]
  /\ toServer = [c \in LobbyClients |-> <<>>]
  /\ toClient = [c \in LobbyClients |-> <<>>]
  /\ playerConnections = <<>>
  /\ loop = [queue |-> <<>>, jobs |-> <<>>, serial |-> <<>>]
  /\ call = [at |-> "none"]
  /\ twin = [server |-> "annotated", rooms |-> <<>>, out |-> <<>>,
             req |-> NoRequest, turn |-> "ready"]
  /\ adapter = [socket |-> 0]
  /\ animation = NotRolling

\* a request reaches the two servers: the one whose store is in rooms handles
\* it first
TwinFirst(req) ==
  /\ twin.turn = "ready"
  /\ Serves(req)
  /\ twin' = [twin EXCEPT !.req = req, !.turn = "one"]
  /\ BesideTwin

\* the two servers change places; the other has done nothing yet for this
\* request
TwinSwap ==
  /\ twin.turn = "one"
  /\ rooms' = twin.rooms
  /\ out' = <<>>
  /\ twin' = [server |-> IF twin.server = "annotated" THEN "index.ts" ELSE "annotated",
              rooms |-> rooms, out |-> out, req |-> twin.req, turn |-> "other"]
  /\ UNCHANGED playerConnections
  /\ BesideTwin

\* the other server handles the same request
TwinSecond ==
  /\ twin.turn = "other"
  /\ Serves(twin.req)
  /\ twin' = [twin EXCEPT !.req = NoRequest, !.turn = "both"]
  /\ BesideTwin

\* the effects of the request have left both servers, neither of which has
\* crashed, and the next request may come
TwinDrain ==
  /\ twin.turn = "both"
  /\ ~Crashed
  /\ out' = <<>>
  /\ twin' = [twin EXCEPT !.out = <<>>, !.turn = "ready"]
  /\ UNCHANGED <<rooms, playerConnections>>
  /\ BesideTwin

NextTwin ==
  \/ \E req \in TwinRequests : TwinFirst(req)
  \/ TwinSwap
  \/ TwinSecond
  \/ TwinDrain

SpecTwin == InitTwin /\ [][NextTwin]_vars

\* the effects of a handler without the player:joined and player:left
\* notifications
IsNotice(m) == m.kind = "emit" /\ m.ev \in {"player:joined", "player:left"}
NoNotice(m) == ~IsNotice(m)
Silenced(effects) == SelectSeq(effects, NoNotice)

\* C36: given the same requests and the same generated codes, index.ts and the
\* annotated server hold the same room store after every request, and their
\* effects (acknowledgements, HTTP replies, rooms:update payloads, uncaught
\* exceptions) are the same once the player:joined and player:left
\* notifications are set aside, which the annotated server alone emits.
C36_ServersAgree ==
  twin.server # "none" /\ twin.turn = "both" =>
    /\ rooms = twin.rooms
    /\ Silenced(out) = Silenced(twin.out)
    /\ LET index == IF twin.server = "index.ts" THEN twin.out ELSE out
       IN Silenced(index) = index

\* both servers have taken a leave that keeps the room; the annotated one has
\* announced it and the other has not
C36_Witness ==
  /\ twin.server = "index.ts" /\ twin.turn = "both"
  /\ LobbyCode \in DOMAIN rooms
  /\ Len(rooms[LobbyCode].players) = 1
  /\ \E i \in 1..Len(out) : out[i].kind = "emit" /\ out[i].ev = "player:left"
  /\ Len(twin.out) = 2 /\ twin.out[2].kind = "ack"
  /\ "s1" \in DOMAIN playerConnections

\* the handler emitted a snapshot of the store: the request got through
Snapshot == \E i \in 1..Len(out') : out'[i].kind = "emit" /\ out'[i].ev = "rooms:update"
\* the handler announced that a player left
SaidLeft == \E i \in 1..Len(out') : out'[i].kind = "emit" /\ out'[i].ev = "player:left"
\* the entries of the sockets other than s stay as they are
OthersKept(s) ==
  \A t \in Sockets \ {s} :
    /\ t \in DOMAIN playerConnections' <=> t \in DOMAIN playerConnections
    /\ t \in DOMAIN playerConnections => playerConnections'[t] = playerConnections[t]
\* the entry of s stays as it is
Kept(s) ==
  /\ s \in DOMAIN playerConnections' <=> s \in DOMAIN playerConnections
  /\ s \in DOMAIN playerConnections => playerConnections'[s] = playerConnections[s]
\* s is tracked as the player with this id in the room with this code
TrackedAs(s, code, id) ==
  /\ s \in DOMAIN playerConnections'
  /\ playerConnections'[s] = [roomCode |-> code, playerId |-> id]

\* C37: the tracking entry of a socket follows its requests.  A rooms:create
\* or rooms:join that succeeds on a socket leaves the socket tracked with the
\* room and the player of that request; a rooms:leave sent on the socket for
\* a room of the store removes its entry, whichever player id the leave
\* names; its disconnect removes its entry; every other request, a request
\* that fails, a POST /rooms, and the requests of other sockets leave the
\* entry as it was.  A disconnect emits player:left if and only if the socket
\* had an entry and the room of the entry is still in the store.
C37_TrackingFollowsRequests ==
  [][ /\ \A host \in TrackedCandidates, k \in TrackedDraws :
           Idle /\ PostRooms(host, k) /\ Beside(FALSE) =>
             \A t \in Sockets : Kept(t)
      /\ \A s \in Sockets, host \in TrackedCandidates, cb \in Callbacks, k \in TrackedDraws :
           Idle /\ TrackedCreate(s, host, cb, k) =>
             /\ OthersKept(s)
             /\ IF Snapshot
                  THEN \E code \in DOMAIN rooms' \ DOMAIN rooms :
                         TrackedAs(s, code, host.id.s)
                  ELSE Kept(s)
      /\ \A s \in Sockets, code \in TrackedCodes, player \in TrackedCandidates, cb \in Callbacks :
           Idle /\ TrackedJoin(s, code, player, cb) =>
             /\ OthersKept(s)
             /\ IF Snapshot THEN TrackedAs(s, code, player.id.s) ELSE Kept(s)
      /\ \A s \in Sockets, code \in TrackedCodes, playerId \in LeaveIds, cb \in Callbacks :
           Idle /\ TrackedLeave(s, code, playerId, cb) =>
             /\ OthersKept(s)
             /\ IF code \in DOMAIN rooms
                  THEN s \notin DOMAIN playerConnections'
                  ELSE Kept(s)
      /\ \A s \in Sockets, code \in TrackedCodes, player \in TrackedCandidates, cb \in Callbacks :
           Idle /\ TrackedUpdatePlayer(s, code, player, cb) => \A t \in Sockets : Kept(t)
      /\ \A s \in Sockets, code \in TrackedCodes, cb \in Callbacks :
           Idle /\ TrackedStart(s, code, cb) => \A t \in Sockets : Kept(t)
      /\ \A s \in Sockets :
           Idle /\ TrackedDisconnect(s) =>
             /\ OthersKept(s)
             /\ s \notin DOMAIN playerConnections'
             /\ UNCHANGED rooms
             /\ SaidLeft <=> /\ s \in DOMAIN playerConnections
                             /\ playerConnections[s].roomCode \in DOMAIN rooms
    ]_vars

\* the first socket, which was tracked, has disconnected and its room was
\* told so, while the second is still tracked
C37_Witness ==
  /\ Len(out) = 1 /\ out[1].kind = "emit" /\ out[1].ev = "player:left"
  /\ "s1" \notin DOMAIN playerConnections
  /\ "s2" \in DOMAIN playerConnections
  /\ playerConnections["s2"].roomCode \in DOMAIN rooms

(***************************************************************************)
(* The client adapter (the rooms module at the head of                     *)
(* frontend/components/Game.tsx): it holds one socket, which ensureSocket  *)
(* creates, and every call goes through ensureSocket.  A socket that is    *)
(* not connected yet keeps what is emitted on it in its send buffer and    *)
(* sends it when it connects; a socket that was disconnected before it     *)
(* connected never connects.                                               *)
(***************************************************************************)
MaxSockets == 3
MaxCalls == 2
MaxPackets == 2
MaxListeners == 1

\* io(BACKEND_BASE, { autoConnect: true }): a socket that is connecting
NewSocket == [status |-> "connecting", sendBuffer |-> <<>>, wire |-> <<>>]

AdapterCode == LobbyCode
AdapterCodes == {LobbyCode, <<"0", "0", "0", "0">>}
AdapterPlayer == LobbyPlayer(IdP2, FALSE)

\* ensureSocket() need not open a socket, or may open one more
MayEnsure(a) ==
  \/ a.socket # 0 /\ a.sockets[a.socket].status = "connected"
  \/ Len(a.sockets) < MaxSockets

\* ensureSocket(): the adapter after the call; its socket is the one returned
ensureSocket(a) ==
  IF a.socket # 0 /\ a.sockets[a.socket].status = "connected" THEN a
  ELSE LET sockets == IF a.socket # 0
                        THEN [a.sockets EXCEPT ![a.socket].status = "closed"]
                        ELSE a.sockets IN
       [a EXCEPT !.sockets = Append(sockets, NewSocket),
                 !.socket = Len(sockets) + 1]

\* s.emit(...) on the adapter's socket: sent when the socket is connected,
\* kept in its send buffer otherwise
socketEmit(a, packet) ==
  IF a.sockets[a.socket].status = "connected"
    THEN [a EXCEPT !.sockets[a.socket].wire = Append(@, packet)]
    ELSE [a EXCEPT !.sockets[a.socket].sendBuffer = Append(@, packet)]

\* the socket the call would emit on has room for one more packet
MayEmit(a) ==
  /\ MayEnsure(a)
  /\ LET b == ensureSocket(a) IN
     Len(b.sockets[b.socket].sendBuffer) + Len(b.sockets[b.socket].wire) < MaxPackets

BesideAdapter ==
  UNCHANGED <<atStart, clientVars, playerConnections, loop, call, twin, animation>>

InitAdapter ==
  /\ rooms = <<>>
  /\ out = <<>>
  /\ atStart = <<>>
  /\ lobby = [c \in LobbyClients |-> LobbyState("out", FALSE, FALSE)]
  /\ toServer = [c \in LobbyClients |-> <<>>]
  /\ toClient = [c \in LobbyClients |-> <<>>]
  /\ playerConnections = <<>>
  /\ loop = [queue |-> <<>>, jobs |-> <<>>, serial |-> <<>>]
  /\ call = [at |-> "none"]
  /\ twin = [server |-> "none"]
  /\ adapter = [socket |-> 0, sockets |-> <<>>, calls |-> <<>>, lastRooms |-> Null,
                listeners |-> 0, messageListeners |-> 0]
  /\ animation = NotRolling

\* joinRoom(code, player): the promise is pending until the acknowledgement
joinRoom(code) ==
  /\ Len(adapter.calls) < MaxCalls
  /\ MayEmit(adapter)
  /\ adapter' =
       LET n == Len(adapter.calls) + 1
           a == socketEmit(ensureSocket(adapter),
                           [ev |-> "rooms:join", code |-> code, call |-> n]) IN
       [a EXCEPT !.calls = Append(@, "pending")]
  /\ UNCHANGED <<rooms, out>>
  /\ BesideAdapter

\* leaveRoom(code, playerId)
leaveRoom ==
  /\ MayEmit(adapter)
  /\ adapter' = socketEmit(ensureSocket(adapter), [ev |-> "rooms:leave", code |-> AdapterCode])
  /\ UNCHANGED <<rooms, out>>
  /\ BesideAdapter

\* updatePlayer(code, player)
updatePlayer ==
  /\ MayEmit(adapter)
  /\ adapter' = socketEmit(ensureSocket(adapter), [ev |-> "rooms:updatePlayer", code |-> AdapterCode])
  /\ UNCHANGED <<rooms, out>>
  /\ BesideAdapter

\* startGame(code)
startGame ==
  /\ MayEmit(adapter)
  /\ adapter' = socketEmit(ensureSocket(adapter), [ev |-> "rooms:start", code |-> AdapterCode])
  /\ UNCHANGED <<rooms, out>>
  /\ BesideAdapter

\* onRoomsUpdate(cb)
onRoomsUpdate ==
  /\ adapter.listeners < MaxListeners
  /\ MayEnsure(adapter)
  /\ adapter' = [ensureSocket(adapter) EXCEPT !.listeners = @ + 1]
  /\ UNCHANGED <<rooms, out>>
  /\ BesideAdapter

\* onPlayerMessage(cb)
onPlayerMessage ==
  /\ adapter.messageListeners < MaxListeners
  /\ MayEnsure(adapter)
  /\ adapter' = [ensureSocket(adapter) EXCEPT !.messageListeners = @ + 1]
  /\ UNCHANGED <<rooms, out>>
  /\ BesideAdapter

\* the socket connects: what it kept is sent, then its connect handler
\* emits rooms:list
Connect(i) ==
  /\ adapter.sockets[i].status = "connecting"
  /\ adapter' = [adapter EXCEPT
       !.sockets[i] = [status |-> "connected", sendBuffer |-> <<>>,
                       wire |-> adapter.sockets[i].sendBuffer
                                \o <<[ev |-> "rooms:list"]>>]]
  /\ UNCHANGED <<rooms, out>>
  /\ BesideAdapter

\* socket.on("rooms:update", ...): the adapter's socket, when it is
\* connected, receives what the server emits
onUpdate(a) ==
  LET updates == {i \in 1..Len(out') : out'[i].kind = "emit" /\ out'[i].ev = "rooms:update"} IN
  IF a.socket # 0 /\ a.sockets[a.socket].status = "connected" /\ updates # {}
    THEN [a EXCEPT !.lastRooms = out'[CHOOSE i \in updates : \A j \in updates : j <= i].payload]
    ELSE a

\* the acknowledgement of a rooms:join reaches the callback of joinRoom
Resolved(a, packet) ==
  IF packet.ev = "rooms:join"
    THEN LET ack == out'[CHOOSE i \in 1..Len(out') : out'[i].kind = "ack"] IN
         [a EXCEPT !.calls[packet.call] = IF ack.err # Null THEN "false" ELSE "true"]
    ELSE a

\* the backend handles the next packet a connected socket has sent
Deliver(i) ==
  /\ adapter.sockets[i].wire # <<>>
  /\ LET packet == Head(adapter.sockets[i].wire) IN
     /\ \/ packet.ev = "rooms:list"
           /\ out' = <<Emit("rooms:update", rooms)>>
           /\ UNCHANGED rooms
        \/ packet.ev = "rooms:join" /\ RoomsJoin(packet.code, AdapterPlayer, "function")
        \/ packet.ev = "rooms:leave" /\ RoomsLeave(packet.code, IdP2, "undefined")
        \/ packet.ev = "rooms:updatePlayer"
           /\ RoomsUpdatePlayer(packet.code, LobbyPlayer(IdP2, TRUE), "undefined")
        \/ packet.ev = "rooms:start" /\ RoomsStart(packet.code, "undefined")
     /\ adapter' = onUpdate(Resolved([adapter EXCEPT !.sockets[i].wire = Tail(@)], packet))
  /\ BesideAdapter

\* createRoom(host): POST /rooms
createRoom ==
  /\ rooms = <<>>
  /\ PostRooms(HostCandidate(IdP1), LobbyDraw)
  /\ adapter' = onUpdate(adapter)
  /\ BesideAdapter

NextAdapter ==
  \/ \E code \in AdapterCodes : joinRoom(code)
  \/ leaveRoom
  \/ updatePlayer
  \/ startGame
  \/ onRoomsUpdate
  \/ onPlayerMessage
  \/ \E i \in 1..Len(adapter.sockets) : Connect(i)
  \/ \E i \in 1..Len(adapter.sockets) : Deliver(i)
  \/ createRoom

SpecAdapter == InitAdapter /\ [][NextAdapter]_vars

\* the request of the n-th joinRoom is in what the socket keeps or has sent
Carries(sock, n) ==
  \E q \in {sock.sendBuffer, sock.wire} :
    \E j \in 1..Len(q) : q[j].ev = "rooms:join" /\ q[j].call = n

\* C38: no request of a joinRoom is lost: while the promise of a joinRoom is
\* pending, its rooms:join is kept or sent by a socket that ensureSocket has
\* not disconnected, so that the backend gets it and the acknowledgement
\* resolves the promise.
C38_NoJoinLost ==
  \A n \in 1..Len(adapter.calls) :
    adapter.calls[n] = "pending" =>
      \E i \in 1..Len(adapter.sockets) :
        /\ adapter.sockets[i].status # "closed"
        /\ Carries(adapter.sockets[i], n)

(***************************************************************************)
(* frontend/components/DiceAnimation.tsx: while isRolling is set an        *)
(* interval shows a random value from 2 to 12 every 100 ms, and after one  *)
(* second a timeout shows the result.  The two die faces are computed      *)
(* from the value shown.                                                   *)
(***************************************************************************)
\* Math.floor(Math.random() * 11) + 2: the values of two dice
DiceValues == 2..12
\* the interval has run nine or ten times when the timeout comes
MaxTicks == 10
\* the steps the animation is followed for, when the props change while it
\* rolls
MaxSteps == 12

\* Math.ceil(displayValue / 2), for a whole displayValue
FirstDie(displayValue) == (displayValue + 1) \div 2
\* Math.floor(displayValue / 2) + (displayValue % 2)
SecondDie(displayValue) == (displayValue \div 2) + (displayValue % 2)

BesideAnimation ==
  UNCHANGED <<rooms, out, atStart, clientVars, playerConnections, loop, call, twin, adapter>>

\* the parent renders the component with these props: the effects run again,
\* the timers of the last render are cleared and, when isRolling is set, new
\* ones are started; when it is not, the state is reset
Render(isRolling, result) ==
  /\ <<isRolling, result>> # <<animation.isRolling, animation.result>>
  /\ animation' =
       [isRolling |-> isRolling,
        result |-> result,
        displayValue |-> IF isRolling THEN animation.displayValue ELSE NoValue,
        animationStep |-> IF isRolling THEN animation.animationStep ELSE 0,
        timer |-> IF isRolling THEN "on" ELSE "off",
        ticks |-> 0]
  /\ BesideAnimation

\* setInterval(() => ..., 100): Math.floor(Math.random() * 11) + 2
Tick(value) ==
  /\ animation.timer = "on"
  /\ animation.ticks < MaxTicks
  /\ animation.animationStep < MaxSteps
  /\ animation' = [animation EXCEPT !.displayValue = value,
                                    !.animationStep = @ + 1,
                                    !.ticks = @ + 1]
  /\ BesideAnimation

\* setTimeout(() => ..., 1000): the interval is cleared and the result shown
Timeout ==
  /\ animation.timer = "on"
  /\ animation.ticks >= MaxTicks - 1
  /\ animation' = [animation EXCEPT !.displayValue = animation.result,
                                    !.animationStep = 0,
                                    !.timer = "off"]
  /\ BesideAnimation

NextAnimation ==
  \/ \E isRolling \in BOOLEAN, result \in DiceValues \cup {NoValue} :
       Render(isRolling, result)
  \/ \E value \in DiceValues : Tick(value)
  \/ Timeout

SpecAnimation == Init /\ [][NextAnimation]_vars

\* the component renders its dice, and they show a value
ShowsValue ==
  /\ animation.isRolling \/ animation.result # NoValue
  /\ animation.displayValue # NoValue

\* C39: whenever DiceAnimation shows a value from 2 to 12, each of its two
\* die faces is between 1 and 6 and the two faces add up to the value.
C39_FacesAddUp ==
  ShowsValue /\ animation.displayValue \in DiceValues =>
    /\ FirstDie(animation.displayValue) \in 1..6
    /\ SecondDie(animation.displayValue) \in 1..6
    /\ FirstDie(animation.displayValue) + SecondDie(animation.displayValue)
         = animation.displayValue

====
